---------------------------- MODULE Spec2Model ----------------------------
(***************************************************************************)
(* A model of the redzed circuit runtime: the Circuit's life-cycle and     *)
(* supervision engine (src/redzed/circuit.py) and the event dispatch and   *)
(* reactive propagation of Blocks, Formulas and Triggers                   *)
(* (src/redzed/block.py, base_block.py, formula_trigger.py).               *)
(*                                                                         *)
(* Spec      the runner, the shutdown monitor, the supervised jobs and     *)
(*           the abort()/shutdown() calls, interleaved at the awaits.      *)
(* SpecProp  events and output changes on a small circuit of Blocks,       *)
(*           Formulas and Triggers; one call is one step.                  *)
(* SpecWait  reached_state() waiters and the phase changes waking them.    *)
(* SpecReg   registration and lookup of Blocks, Formulas and Triggers.     *)
(* SpecInit  the initialization of the Blocks by the runner.               *)
(* SpecStop  the start hooks, the final save of the persistent state, the *)
(*           stop and close hooks of the shutdown, and events sent while   *)
(*           the Circuit shuts down.                                       *)
(* SpecLive  the run with its hooks under fair scheduling.                 *)
(***************************************************************************)
EXTENDS Integers, Sequences, FiniteSets, TLC

VARIABLES
    state,          \* Circuit._state
    errors,         \* Circuit._errors
    empty,          \* TRUE iff Circuit._blocks is empty when run() is called
    runPc,          \* run(): "init", "running", "ok", "raised"
    runExcs,        \* the exceptions of the group run() raised
    outerLeaves,    \* leaf exceptions collected by run()'s task group
    outerAborting,  \* run()'s task group is aborting
    rzPc,           \* rz_runner(): "absent", "waiting", "done"
    rzCancel,       \* a cancel() of the rz_runner task is pending
    innerAborting,  \* rz_runner()'s task group is aborting
    innerLeaves,    \* leaf exceptions collected by rz_runner()'s task group
    monPc,          \* _shutdown_monitor(): "absent", "wait", "raised", "cancelled"
    monCancel,      \* a cancel() of the monitor task is pending
    corePc,         \* _runner_core(): position, see the Core* actions
    coreCancel,     \* a cancel() of the runner core task is pending
    closedErrors,   \* history: Circuit._errors when the runner set CLOSED
    jobPc,          \* per job: "absent", "held", "body", "done"
    jobCancel,      \* per job: a cancel() of the watchdog task is pending
    jobImm,         \* per job: immediate_start
    jobAuto,        \* per job: member of Circuit._auto_cancel_tasks
    jobEnd,         \* per job: how the job ended: "none", "not started",
                    \*   "held cancel", "return", "raise", "cancel"
    jobErr,         \* per job: the exception the watchdog raised, or NoError
    jobSeen,        \* history: the phase in which the job's body was started
    circ,           \* which of the Circuits was built
    rev,            \* iteration order of the dependent-formula and trigger sets
    out,            \* per Block and Formula: _output
    outPrev,        \* per Block and Formula: _output_prev
    evaluateActive, \* per Formula: _evaluate_active
    etypesActive,   \* per Block: _etypes_active
    enabled,        \* per Trigger: _enabled
    calls,          \* history: what the last top-level call did, in order
    raised,         \* the exception the last top-level call raised, or NoExc
    stateChange,    \* Circuit._state_change: 0 for None, else the Event
    evCount,        \* the number of asyncio.Event objects created so far
    evSet,          \* the Events that were set
    wPc,            \* per waiter of reached_state: "idle", "waiting", "returned"
    wWant,          \* per waiter: the phase it asked for
    wEv,            \* per waiter: the Event it waits for
    wRet,           \* per waiter: what reached_state returned
    wAt,            \* history: the phase at the moment reached_state returned
    blocksReg,      \* Circuit._blocks: the <<name, kind>> registered, in order
    triggersReg,    \* Circuit._triggers: the number of Triggers registered
    regLast,        \* history: the last call of rz_add_item and its outcome
    ib,             \* per Block: its type, rz_initializers and their _applied
                    \*   flags, _init_task, the position of init_block_async,
                    \*   and the history of its initialization
    preFail,        \* the units whose rz_pre_init raises
    preRun,         \* history: the units whose rz_pre_init was called, in order
    finalUndef,     \* history: the Blocks the final check of _init_blocks
                    \*   found uninitialized; {"-"} before the check
    hooks,          \* per Block: which of rz_start, rz_stop, rz_astop and rz_close
                    \*   its type defines, and what its rz_stop does
    shutFlag,       \* per Block: _shutdown of the output Blocks
    astopPc,        \* per Block: the task of _shutdown_block_async: "none",
                    \*   "run", "returned", "raised", "timeout"
    hookLog,        \* history: the hooks called by the runner, in order
    pdict           \* Circuit.rz_persistent_dict: per Block << >>, or the
                    \*   [state, now] stored under its rz_key

lifeVars == <<state, errors, empty, runPc, runExcs, outerLeaves, outerAborting, rzPc, rzCancel,
              innerAborting, innerLeaves, monPc, monCancel, corePc, coreCancel,
              closedErrors, jobPc, jobCancel, jobImm, jobAuto, jobEnd, jobErr, jobSeen>>

propVars == <<circ, rev, out, outPrev, evaluateActive, etypesActive, enabled, calls, raised>>
waitVars == <<stateChange, evCount, evSet, wPc, wWant, wEv, wRet, wAt>>
regVars == <<blocksReg, triggersReg, regLast>>
initVars == <<ib, preFail, preRun, finalUndef>>
stopVars == <<hooks, shutFlag, astopPc, hookLog, pdict>>
extVars == <<waitVars, regVars, initVars, stopVars>>
vars == <<lifeVars, propVars, extVars>>

-----------------------------------------------------------------------------
(* CircuitState *)
UNDER_CONSTRUCTION == 0
INIT_CIRCUIT == 1
INIT_BLOCKS == 2
RUNNING == 3
SHUTDOWN == 4
CLOSED == 5

CircuitState == UNDER_CONSTRUCTION .. CLOSED

(* Jobs.  Services are created with create_service(); supporting jobs are    *)
(* the coroutines passed to run().                                           *)
Services == {"s1"}
Supporting == {"t1"}
Jobs == Services \cup Supporting

(* Exceptions are values <<origin, kind>>; one object per value.             *)
ExtErrors == {<<"ext", "e1">>}
TERMINATE == <<"tg", "_TerminateTaskGroup">>
ErrTerminated(j) == <<j, "terminated before shutdown">>
ErrCancelled(j) == <<j, "was cancelled before shutdown">>
ErrRaised(j) == <<j, "raised">>
NoError == <<"no", "error">>

InSeq(e, s) == \E i \in 1 .. Len(s) : s[i] = e
Count(e, s) == Cardinality({i \in 1 .. Len(s) : s[i] = e})

-----------------------------------------------------------------------------
(* Circuit._set_state without its guard (mutant). *)
SetState_Unguarded(cur, newstate) == newstate

(* Circuit._set_state: the new phase is taken only if it is higher.         *)
SetState(cur, newstate) == IF newstate <= cur THEN cur ELSE newstate

after_shutdown(cur) == cur >= SHUTDOWN

(* Circuit.shutdown without the jump to CLOSED (mutant). *)
Shutdown_NeverClosed(cur) ==
    IF after_shutdown(cur) THEN cur ELSE SetState(cur, SHUTDOWN)

(* Circuit.shutdown, as the phase it leaves. *)
Shutdown(cur) ==
    IF after_shutdown(cur) THEN cur
    ELSE IF cur = UNDER_CONSTRUCTION THEN SetState(cur, CLOSED)
    ELSE SetState(cur, SHUTDOWN)

(* Circuit.abort without the membership test (mutant). *)
AbortErrors_NoDedup(errs, err) == Append(errs, err)

(* Circuit.abort, as the pair it leaves: the error list and the phase.       *)
AbortErrors(errs, err) == IF InSeq(err, errs) THEN errs ELSE Append(errs, err)

AbortState(errs, cur, err) ==
    IF InSeq(err, errs) THEN cur
    ELSE IF after_shutdown(cur) THEN cur
    ELSE Shutdown(cur)

-----------------------------------------------------------------------------
(* The units of a circuit.  A Block and a Formula have an output, a Trigger *)
(* has none.  Outputs are small integers; UNDEF is the marker of undef.py.   *)
MaxVal == 2
Values == 0 .. MaxVal
UNDEF == -1

Blocks == {"a", "b"}
Formulas == {"f1", "f2", "f3", "h", "g", "k", "m", "n", "p", "q"}
Triggers == {"t1", "t2", "t3", "t4", "t5", "r1", "r2", "t0", "t6"}
Outputs == Blocks \cup Formulas

(* Six circuits.                                                             *)
(*  diamond  a -> f1, f2 -> f3;  t1(f1, f2), t2(f3), t3(a, b)                *)
(*  notify   b -> m -> n, t0(m), t3(a, b); b was created with always_trigger *)
(*           and the function of n raises for the largest value              *)
(*  chain    a -> h -> g, t4(g); the function of g sends an event to a       *)
(*  loop     a -> k, t5(k);      the function of k sends an event to a       *)
(*  ring     r1(a) sends an event to b, b -> m, r2(m) sends an event to a    *)
(*  mutual   a, q -> p -> q, t6(p): two Formulas that depend on each other   *)
(* and the circuit the initialization is followed on:                        *)
(*  plain    a, b -> m, t0(m)                                                *)
Circuits == {"diamond", "notify", "chain", "loop", "ring", "mutual"}
Items(c) ==
    CASE c = "plain" -> {"a", "b", "m", "t0"}
      [] c = "diamond" -> {"a", "b", "f1", "f2", "f3", "t1", "t2", "t3"}
      [] c = "notify" -> {"a", "b", "m", "n", "t0", "t3"}
      [] c = "chain" -> {"a", "b", "h", "g", "t4"}
      [] c = "loop" -> {"a", "b", "k", "t5"}
      [] c = "ring" -> {"a", "b", "m", "r1", "r2"}
      [] c = "mutual" -> {"a", "b", "p", "q", "t6"}

(* _ExtFunction._inputs: the units the function of u has as parameters *)
InputsOf(u) ==
    CASE u \in {"f1", "f2", "h", "k", "r1"} -> {"a"}
      [] u = "f3" -> {"f1", "f2"}
      [] u = "t1" -> {"f1", "f2"}
      [] u = "t2" -> {"f3"}
      [] u = "t3" -> {"a", "b"}
      [] u = "g" -> {"h"}
      [] u = "t4" -> {"g"}
      [] u = "t5" -> {"k"}
      [] u = "m" -> {"b"}
      [] u \in {"r2", "t0", "n"} -> {"m"}
      [] u = "p" -> {"a", "q"}
      [] u \in {"q", "t6"} -> {"p"}

(* the order the Formulas and the Triggers were created in (Circuit._items) *)
RegFormulas == <<"f1", "f2", "f3", "h", "g", "k", "m", "n", "p", "q">>
RegTriggers == <<"t1", "t2", "t3", "t4", "t5", "r1", "r2", "t0", "t6">>

(* Block(always_trigger=...) *)
AlwaysTrigger(c, b) == c \in {"diamond", "notify"} /\ b = "b"

(* the value the function of u returns for the outputs o *)
FnValue(u, o) ==
    CASE u = "f1" -> IF o["a"] >= 1 THEN 1 ELSE 0
      [] u = "f2" -> IF o["a"] >= 2 THEN 1 ELSE 0
      [] u = "f3" -> o["f1"] + o["f2"]
      [] u \in {"h", "k", "p"} -> o["a"]
      [] u = "q" -> o["p"]
      [] u = "n" -> o["m"]
      [] u = "g" -> o["h"]
      [] u = "m" -> o["b"]
      [] OTHER -> 0

(* the function of u raises an exception for the outputs o *)
FnRaises(u, o) == (u = "t3" /\ o["a"] = 1 /\ o["b"] = 1) \/ (u = "n" /\ o["m"] = MaxVal)

(* the event <<block, type, value>> the function of u sends before it        *)
(* returns, or NoEffect                                                      *)
NoEffect == <<"none", "none", 0>>
FnEffect(u, o) ==
    CASE u = "g" /\ o["h"] = MaxVal -> <<"a", "store", 0>>
      [] u = "k" /\ o["a"] = MaxVal -> <<"a", "store", 0>>
      [] u = "r1" -> <<"b", "store", o["a"]>>
      [] u = "r2" /\ o["m"] = MaxVal -> <<"a", "store", o["m"]>>
      [] OTHER -> NoEffect

(* Event types.  Block a has the handlers store, store1, store2, store3,     *)
(* Block b has store only; both have the introspection handler and a handler *)
(* that raises (error).                                                      *)
ETypes == {"store", "store1", "store2", "store3", "bogus", "error", "_get_output"}
HandlerOf(b, etype) ==
    CASE etype = "store" -> "store"
      [] etype = "_get_output" -> "get"
      [] etype = "error" -> "raise"
      [] b = "a" /\ etype \in {"store1", "store2", "store3"} -> "forward"
      [] OTHER -> "default"

(* the event <<type, value>> a forwarding handler sends to its own Block *)
Forward(etype, evalue) ==
    CASE etype = "store1" ->
             <<IF evalue < MaxVal THEN "store" ELSE "store3", (evalue + 1) % (MaxVal + 1)>>
      [] etype = "store2" -> <<"store1", evalue>>
      [] etype = "store3" -> <<"store2", evalue>>

(* BlockOrFormula.__init__, Block.__init__, Formula.__init__, Trigger.__init__ *)
NoExc == <<"no", "exception", 0>>
Constructed ==
    /\ out = [u \in Outputs |-> UNDEF]
    /\ outPrev = [u \in Outputs |-> UNDEF]
    /\ evaluateActive = [f \in Formulas |-> FALSE]
    /\ etypesActive = [b \in Blocks |-> {}]
    /\ enabled = [t \in Triggers |-> FALSE]
    /\ calls = << >>
    /\ raised = NoExc

(* The callers of reached_state.  Circuit.__init__: no Event exists.        *)
Waiters == {"w1", "w2"}
NoWaiters ==
    /\ stateChange = 0
    /\ evCount = 0
    /\ evSet = {}
    /\ wPc = [w \in Waiters |-> "idle"]
    /\ wWant = [w \in Waiters |-> UNDER_CONSTRUCTION]
    /\ wEv = [w \in Waiters |-> 0]
    /\ wRet = [w \in Waiters |-> FALSE]
    /\ wAt = [w \in Waiters |-> UNDER_CONSTRUCTION]

(* Initialization.  A Block has a type (a Memory has rz_init, a Noop has     *)
(* not) and the initializers given with initial=..., named by what they do:  *)
(*   "fail"     InitFunction whose function raises                           *)
(*   "undef"    a synchronous initializer without a value (UNDEF)            *)
(*   "bad"      InitValue of a value the rz_init of the Block raises for     *)
(*   "v0", "v1" InitValue(0), InitValue(1)                                   *)
(*   "wait"     InitWait                                                     *)
(*   "task"     InitTask; the coroutine returns 1, raises or times out       *)
(*   "taskbad"  InitTask returning a value the rz_init raises for            *)
BAD == -2
RegBlocks == <<"a", "b">>
IsAsync(k) == k \in {"wait", "task", "taskbad"}
GetInitRaises(k) == k = "fail"
InitValueOf(k) ==
    CASE k = "v0" -> 0
      [] k \in {"v1", "task"} -> 1
      [] k \in {"bad", "taskbad"} -> BAD
      [] OTHER -> UNDEF
RzInitRaises(v) == v = BAD
has_rz_init(kind) == kind = "Memory"

Profiles ==
    {[kind |-> "Memory", inits |-> <<"fail", "fail", "v0">>],
     [kind |-> "Memory", inits |-> <<"bad", "bad", "v1">>],
     [kind |-> "Memory", inits |-> <<"v0", "v1">>],
     [kind |-> "Memory", inits |-> <<"fail", "undef">>],
     [kind |-> "Memory", inits |-> << >>],
     [kind |-> "Noop", inits |-> << >>],
     [kind |-> "Memory", inits |-> <<"wait">>],
     [kind |-> "Memory", inits |-> <<"wait", "wait", "fail">>],
     [kind |-> "Memory", inits |-> <<"task", "v1">>],
     [kind |-> "Memory", inits |-> <<"taskbad", "v0">>]}

(* the initializers of the second Block *)
ProfilesB == {p \in Profiles : p.kind = "Memory" /\ p.inits \in {<<"v0", "v1">>, << >>, <<"wait">>}}
(* the Block the events are sent to *)
EventBlocks == {"a"}

(* Block.__init__ and the initializers' __init__ *)
NewBlock(p) ==
    [kind |-> p.kind, inits |-> p.inits, applied |-> << >>, log_errors |-> 0,
     pc |-> "none", pos |-> 0, init_task |-> 0,
     got_event |-> FALSE, wait_over |-> FALSE, first_store |-> "none"]

PreOrder == <<"a", "b", "m", "t0">>
NotInitialized ==
    /\ ib = [b \in Blocks |-> NewBlock([kind |-> "Memory", inits |-> <<"v0">>])]
    /\ preFail = {}
    /\ preRun = << >>
    /\ finalUndef = {"-"}

(* The registry while the application builds the Circuit.  Circuit.__init__: *)
(* no item is registered.                                                    *)
Names == {"n1", "n2"}
Kinds == {"Block", "Formula", "Trigger"}
MaxTriggers == 2
NoReg == [kind |-> "none", name |-> "none", phase |-> UNDER_CONSTRUCTION, result |-> "none"]
NoItems ==
    /\ blocksReg = << >>
    /\ triggersReg = 0
    /\ regLast = NoReg

(* The hooks of the Blocks.  A Block type may define rz_start, rz_stop,      *)
(* rz_astop and rz_close.  What rz_stop does:                                *)
(*   "none"  the type has no rz_stop                                         *)
(*   "ok"    returns                                                         *)
(*   "fail"  raises                                                          *)
(*   "set"   sets the output of the Block to StopValue                       *)
(*   "flag"  sets _shutdown, which rz_is_shut_down of the type returns       *)
(*           (OutputFunc, the buffers)                                       *)
NoHook == [start |-> FALSE, stop |-> "none", astop |-> FALSE, close |-> FALSE]
NoHooks ==
    /\ hooks = [b \in Blocks |-> NoHook]
    /\ shutFlag = [b \in Blocks |-> FALSE]
    /\ astopPc = [b \in Blocks |-> "none"]
    /\ hookLog = << >>
    /\ pdict = [b \in Blocks |-> << >>]

-----------------------------------------------------------------------------
(* The state after construction of the Circuit: no runner, no job.          *)
Init ==
    /\ state = UNDER_CONSTRUCTION
    /\ errors = << >>
    /\ empty \in BOOLEAN
    /\ runPc = "init"
    /\ runExcs = << >>
    /\ outerLeaves = << >>
    /\ outerAborting = FALSE
    /\ rzPc = "absent"
    /\ rzCancel = FALSE
    /\ innerAborting = FALSE
    /\ innerLeaves = << >>
    /\ monPc = "absent"
    /\ monCancel = FALSE
    /\ corePc = "absent"
    /\ coreCancel = FALSE
    /\ closedErrors = << >>
    /\ jobPc = [j \in Jobs |-> "absent"]
    /\ jobCancel = [j \in Jobs |-> FALSE]
    /\ jobImm = [j \in Jobs |-> TRUE]
    /\ jobAuto = [j \in Jobs |-> FALSE]
    /\ jobEnd = [j \in Jobs |-> "none"]
    /\ jobErr = [j \in Jobs |-> NoError]
    /\ jobSeen = [j \in Jobs |-> -1]
    /\ Constructed
    /\ circ = "diamond"
    /\ rev = FALSE
    /\ NoWaiters
    /\ NoItems
    /\ NotInitialized
    /\ NoHooks

jobVars == <<jobPc, jobCancel, jobImm, jobAuto, jobEnd, jobErr, jobSeen>>
tgVars == <<outerLeaves, outerAborting, rzPc, rzCancel, innerAborting, innerLeaves>>

(* TaskGroup._abort of run()'s group: cancel every child that is not done.   *)
OuterCancelJobs(pcs, cancels) ==
    [j \in Jobs |-> IF j \in Supporting /\ pcs[j] \in {"held", "body"}
                    THEN TRUE ELSE cancels[j]]

(* a group whose failing child leaves the runner core alone (mutant) *)
InnerCancelCore_Never == FALSE

(* TaskGroup._abort of rz_runner()'s group. *)
InnerCancelMon == monPc = "wait"
InnerCancelCore == corePc \notin {"absent", "done"}

(* history: the error list at the step that reaches CLOSED *)
ClosedNow(cur, new, errs, old) == IF cur # CLOSED /\ new = CLOSED THEN errs ELSE old

(* Circuit.abort() and Circuit.shutdown() called by a block, a job or the    *)
(* application.                                                              *)
ExternalAbort(err) ==
    /\ errors' = AbortErrors(errors, err)
    /\ state' = AbortState(errors, state, err)
    /\ closedErrors' = ClosedNow(state, state', errors', closedErrors)
    /\ UNCHANGED <<empty, runPc, runExcs, tgVars, monPc, monCancel, corePc,
                   coreCancel, jobVars>>
    /\ UNCHANGED <<propVars, extVars>>

ExternalShutdown ==
    /\ state' = Shutdown(state)
    /\ closedErrors' = ClosedNow(state, state', errors, closedErrors)
    /\ UNCHANGED <<errors, empty, runPc, runExcs, tgVars, monPc, monCancel, corePc,
                   coreCancel, jobVars>>
    /\ UNCHANGED <<propVars, extVars>>

(* Circuit.create_service: refused after shutdown, else a watchdog task.     *)
CreateService(j, imm, auto) ==
    /\ j \in Services
    /\ jobPc[j] = "absent"
    /\ ~after_shutdown(state)
    /\ jobPc' = [jobPc EXCEPT ![j] = IF imm THEN "body" ELSE "held"]
    /\ jobImm' = [jobImm EXCEPT ![j] = imm]
    /\ jobAuto' = [jobAuto EXCEPT ![j] = auto]
    /\ jobSeen' = [jobSeen EXCEPT ![j] = IF imm THEN state ELSE -1]
    /\ UNCHANGED <<state, errors, empty, runPc, runExcs, tgVars, monPc, monCancel,
                   corePc, coreCancel, closedErrors, jobCancel, jobEnd, jobErr>>
    /\ UNCHANGED <<propVars, extVars>>

(* The owner of a service task cancels it.                                   *)
CancelService(j) ==
    /\ j \in Services
    /\ jobPc[j] \in {"held", "body"}
    /\ ~jobCancel[j]
    /\ jobCancel' = [jobCancel EXCEPT ![j] = TRUE]
    /\ UNCHANGED <<state, errors, empty, runPc, runExcs, tgVars, monPc, monCancel,
                   corePc, coreCancel, closedErrors, jobPc, jobImm, jobAuto, jobEnd,
                   jobErr, jobSeen>>
    /\ UNCHANGED <<propVars, extVars>>

(* reached_state returning TRUE for any phase reached (mutant) *)
reached_state_AtLeast(cur, wanted) == cur >= wanted

(* Circuit.reached_state, its result once the wait is over: is the phase     *)
(* exactly the wanted one?                                                   *)
reached_state(cur, wanted) == cur = wanted

(* Circuit.watchdog, the wait for RUNNING of a job not started immediately:  *)
(* reached_state(RUNNING) returns once the phase is RUNNING or higher, and   *)
(* the body is started only if it is RUNNING.  A cancellation of the wait is *)
(* outside the try statement.                                                *)
WatchdogHeld(j) ==
    /\ jobPc[j] = "held"
    /\ ~(~jobCancel[j] /\ state < RUNNING)
    /\ IF jobCancel[j]
       THEN /\ jobPc' = [jobPc EXCEPT ![j] = "done"]
            /\ jobEnd' = [jobEnd EXCEPT ![j] = "held cancel"]
            /\ jobSeen' = jobSeen
       ELSE IF reached_state(state, RUNNING)
       THEN /\ jobPc' = [jobPc EXCEPT ![j] = "body"]
            /\ jobEnd' = jobEnd
            /\ jobSeen' = [jobSeen EXCEPT ![j] = state]
       ELSE /\ jobPc' = [jobPc EXCEPT ![j] = "done"]
            /\ jobEnd' = [jobEnd EXCEPT ![j] = "not started"]
            /\ jobSeen' = jobSeen
    /\ jobCancel' = [jobCancel EXCEPT ![j] = FALSE]
    /\ UNCHANGED <<state, errors, empty, runPc, runExcs, tgVars, monPc, monCancel,
                   corePc, coreCancel, closedErrors, jobImm, jobAuto, jobErr>>
    /\ UNCHANGED <<propVars, extVars>>

(* The exception the watchdog records and raises when the body ends with     *)
(* outcome how ("return", "raise", "cancel") in phase cur; NoError if none.  *)
(* the watchdog taking every return for a regular end (mutant) *)
WatchdogError_ReturnSilent(j, how, cur) ==
    CASE how = "raise" -> ErrRaised(j)
      [] how = "cancel" -> IF after_shutdown(cur) THEN NoError ELSE ErrCancelled(j)
      [] OTHER -> NoError

(* the watchdog re-raising every cancellation (mutant) *)
WatchdogError_CancelSilent(j, how, cur) ==
    CASE how = "raise" -> ErrRaised(j)
      [] how = "cancel" -> NoError
      [] OTHER -> IF after_shutdown(cur) THEN NoError ELSE ErrTerminated(j)

WatchdogError(j, how, cur) ==
    CASE how = "raise" -> ErrRaised(j)
      [] how = "cancel" -> IF after_shutdown(cur) THEN NoError ELSE ErrCancelled(j)
      [] OTHER -> IF after_shutdown(cur) THEN NoError ELSE ErrTerminated(j)

(* Circuit.watchdog, the end of the job's body.  A failed supporting job     *)
(* makes run()'s task group abort.                                           *)
WatchdogBody(j, how) ==
    /\ jobPc[j] = "body"
    /\ how \in {"return", "raise", "cancel"}
    /\ how = "cancel" => jobCancel[j]
    /\ LET err == WatchdogError(j, how, state)
           failed == err # NoError
           tgfail == failed /\ j \in Supporting
           pcs == [jobPc EXCEPT ![j] = "done"]
       IN  /\ errors' = IF failed THEN AbortErrors(errors, err) ELSE errors
           /\ state' = IF failed THEN AbortState(errors, state, err) ELSE state
           /\ jobPc' = pcs
           /\ jobEnd' = [jobEnd EXCEPT ![j] = how]
           /\ jobErr' = [jobErr EXCEPT ![j] = err]
           /\ closedErrors' = ClosedNow(state, state', errors', closedErrors)
           /\ outerLeaves' = IF tgfail THEN Append(outerLeaves, err) ELSE outerLeaves
           /\ outerAborting' = (outerAborting \/ tgfail)
           /\ jobCancel' = IF tgfail /\ ~outerAborting
                           THEN OuterCancelJobs(pcs, [jobCancel EXCEPT ![j] = FALSE])
                           ELSE [jobCancel EXCEPT ![j] = FALSE]
           /\ rzCancel' = IF tgfail /\ ~outerAborting /\ rzPc = "waiting"
                          THEN TRUE ELSE rzCancel
    /\ UNCHANGED <<empty, runPc, runExcs, rzPc, innerAborting, innerLeaves, monPc,
                   monCancel, corePc, coreCancel, jobImm, jobAuto, jobSeen>>
    /\ UNCHANGED <<propVars, extVars>>

-----------------------------------------------------------------------------
(* run(): the task group with the "Circuit runner" task and one watchdog     *)
(* task (immediate_start) per supporting coroutine.  rz_runner() in turn     *)
(* opens the group of the shutdown monitor and the runner core.              *)
RunStart ==
    /\ runPc = "init"
    /\ runPc' = "running"
    /\ rzPc' = "waiting"
    /\ monPc' = "wait"
    /\ corePc' = "start"
    /\ jobPc' = [j \in Jobs |-> IF j \in Supporting THEN "body" ELSE jobPc[j]]
    /\ jobSeen' = [j \in Jobs |-> IF j \in Supporting THEN state ELSE jobSeen[j]]
    /\ UNCHANGED <<state, errors, empty, runExcs, outerLeaves, outerAborting, rzCancel,
                   innerAborting, innerLeaves, monCancel, coreCancel, closedErrors,
                   jobCancel, jobImm, jobAuto, jobEnd, jobErr>>
    /\ UNCHANGED <<propVars, extVars>>

(* _shutdown_monitor: reached_state(SHUTDOWN), then raise                    *)
(* _TerminateTaskGroup; the failure makes rz_runner()'s group abort, which   *)
(* cancels the runner core.  Both tasks are created in one step, so the      *)
(* group's callback runs after the first step of the runner core.            *)
ShutdownMonitor ==
    /\ monPc = "wait"
    /\ corePc # "start"
    /\ ~(~monCancel /\ state < SHUTDOWN)
    /\ IF monCancel
       THEN /\ monPc' = "cancelled"
            /\ UNCHANGED <<innerLeaves, innerAborting, coreCancel>>
       ELSE /\ monPc' = "raised"
            /\ innerLeaves' = Append(innerLeaves, TERMINATE)
            /\ innerAborting' = TRUE
            /\ coreCancel' = IF ~innerAborting /\ InnerCancelCore THEN TRUE ELSE coreCancel
    /\ monCancel' = FALSE
    /\ UNCHANGED <<state, errors, empty, runPc, runExcs, outerLeaves, outerAborting,
                   rzPc, rzCancel, corePc, closedErrors, jobVars>>
    /\ UNCHANGED <<propVars, extVars>>

(* rz_runner() is cancelled by run()'s group while it waits for its own      *)
(* group: TaskGroup.__aexit__ aborts the group unless it is aborting.        *)
RzRunnerCancelled ==
    /\ rzPc = "waiting"
    /\ rzCancel
    /\ corePc # "start"
    /\ rzCancel' = FALSE
    /\ innerAborting' = TRUE
    /\ monCancel' = IF ~innerAborting /\ InnerCancelMon THEN TRUE ELSE monCancel
    /\ coreCancel' = IF ~innerAborting /\ InnerCancelCore THEN TRUE ELSE coreCancel
    /\ UNCHANGED <<state, errors, empty, runPc, runExcs, outerLeaves, outerAborting,
                   rzPc, innerLeaves, monPc, corePc, closedErrors, jobVars>>
    /\ UNCHANGED <<propVars, extVars>>

(* rz_runner() ends when both children are done: with the group of their     *)
(* exceptions, and _TerminateTaskGroup when there is none.                   *)
RzRunnerEnd ==
    /\ rzPc = "waiting"
    /\ monPc \in {"raised", "cancelled"}
    /\ corePc = "done"
    /\ rzPc' = "done"
    /\ outerLeaves' = outerLeaves \o (IF innerLeaves = << >> THEN <<TERMINATE>>
                                      ELSE innerLeaves)
    /\ outerAborting' = TRUE
    /\ jobCancel' = IF ~outerAborting THEN OuterCancelJobs(jobPc, jobCancel)
                    ELSE jobCancel
    /\ rzCancel' = FALSE
    /\ UNCHANGED <<state, errors, empty, runPc, runExcs, innerAborting, innerLeaves,
                   monPc, monCancel, corePc, coreCancel, closedErrors, jobPc, jobImm,
                   jobAuto, jobEnd, jobErr, jobSeen>>
    /\ UNCHANGED <<propVars, extVars>>

(* run(), the except clause: the leaves of the group that are not            *)
(* _TerminateTaskGroup, each once.                                           *)
(* run() keeping every leaf that is not _TerminateTaskGroup (mutant) *)
Distinct_NoDedup(leaves, acc) == acc \o SelectSeq(leaves, LAMBDA exc : exc # TERMINATE)

RECURSIVE Distinct(_, _)
Distinct(leaves, acc) ==
    IF leaves = << >> THEN acc
    ELSE LET exc == Head(leaves)
         IN  Distinct(Tail(leaves),
                      IF exc # TERMINATE /\ ~InSeq(exc, acc) THEN Append(acc, exc)
                      ELSE acc)

RunEnd ==
    /\ runPc = "running"
    /\ rzPc = "done"
    /\ \A j \in Supporting : jobPc[j] = "done"
    /\ LET exceptions == Distinct(outerLeaves, << >>)
       IN  /\ runExcs' = exceptions
           /\ runPc' = IF exceptions # << >> THEN "raised" ELSE "ok"
    /\ UNCHANGED <<state, errors, empty, tgVars, monPc, monCancel, corePc, coreCancel,
                   closedErrors, jobVars>>
    /\ UNCHANGED <<propVars, extVars>>

-----------------------------------------------------------------------------
(* _runner_core.  Positions: "start", "init1" and "init2" (the two           *)
(* sleep(0) of _runner_init), "idle" (await asyncio.Future()), "stop1",      *)
(* "stop2", "stop3" (the awaits of the shutdown), "done".                    *)
ErrClosed == <<"runner", "Cannot restart a closed circuit">>
ErrStarted == <<"runner", "The circuit is already running">>
ErrEmpty == <<"runner", "The circuit is empty">>
ErrPreInit == <<"unit", "rz_pre_init failed">>
ErrInit == <<"unit", "was not initialized">>
ErrStart == <<"unit", "rz_start failed">>

(* the checks at the start; NoError when the runner may start *)
StartCheck(cur, isEmpty) ==
    IF cur = CLOSED THEN ErrClosed
    ELSE IF cur # UNDER_CONSTRUCTION THEN ErrStarted
    ELSE IF isEmpty THEN ErrEmpty
    ELSE NoError

CoreStart ==
    /\ corePc = "start"
    /\ LET err == StartCheck(state, empty)
       IN  IF err # NoError
           THEN /\ corePc' = "done"
                /\ innerLeaves' = Append(innerLeaves, err)
                /\ innerAborting' = TRUE
                /\ monCancel' = IF ~innerAborting /\ InnerCancelMon THEN TRUE
                                ELSE monCancel
                /\ state' = state
           ELSE /\ corePc' = "init1"
                /\ state' = SetState(state, INIT_CIRCUIT)
                /\ UNCHANGED <<innerLeaves, innerAborting, monCancel>>
    /\ UNCHANGED <<errors, empty, runPc, runExcs, outerLeaves, outerAborting, rzPc,
                   rzCancel, monPc, coreCancel, closedErrors, jobVars>>
    /\ UNCHANGED <<propVars, extVars>>

(* The runner core is cancelled at an await before the shutdown: the         *)
(* CancelledError is caught, SHUTDOWN is set unless it is set already.       *)
CoreCancelled ==
    /\ corePc \in {"init1", "init2", "idle"}
    /\ coreCancel
    /\ coreCancel' = FALSE
    /\ state' = IF ~after_shutdown(state) THEN SetState(state, SHUTDOWN) ELSE state
    /\ corePc' = "stop1"
    /\ UNCHANGED <<errors, empty, runPc, runExcs, tgVars, monPc, monCancel,
                   closedErrors, jobVars>>
    /\ UNCHANGED <<propVars, extVars>>

(* _runner_init after the first sleep(0): return at once after a shutdown,   *)
(* else the pre-init hooks (a failure is passed to abort), then INIT_BLOCKS. *)
(* After _runner_init returned, RUNNING is set, which is ignored after a     *)
(* shutdown.                                                                 *)
CoreInit1(ok) ==
    /\ corePc = "init1"
    /\ ~coreCancel
    /\ IF after_shutdown(state)
       THEN /\ corePc' = "idle"
            /\ state' = SetState(state, RUNNING)
            /\ errors' = errors
       ELSE IF ok
       THEN /\ corePc' = "init2"
            /\ state' = SetState(state, INIT_BLOCKS)
            /\ errors' = errors
       ELSE /\ corePc' = "idle"
            /\ errors' = AbortErrors(errors, ErrPreInit)
            /\ state' = AbortState(errors, state, ErrPreInit)
    /\ UNCHANGED <<empty, runPc, runExcs, tgVars, monPc, monCancel, coreCancel,
                   closedErrors, jobVars>>
    /\ UNCHANGED <<propVars, extVars>>

(* _runner_init after the second sleep(0): _init_blocks and the start hooks  *)
(* (a failure is passed to abort), then RUNNING.                             *)
CoreInit2(err) ==
    /\ corePc = "init2"
    /\ ~coreCancel
    /\ err \in {NoError, ErrInit, ErrStart}
    /\ corePc' = "idle"
    /\ IF err = NoError
       THEN /\ state' = SetState(state, RUNNING)
            /\ errors' = errors
       ELSE /\ errors' = AbortErrors(errors, err)
            /\ state' = AbortState(errors, state, err)
    /\ UNCHANGED <<empty, runPc, runExcs, tgVars, monPc, monCancel, coreCancel,
                   closedErrors, jobVars>>
    /\ UNCHANGED <<propVars, extVars>>

(* _runner_shutdown up to the sleep(0): checkpoints, the synchronous stop    *)
(* hooks (failures suppressed), cancel() of the auto-cancel service tasks.   *)
CoreStop1 ==
    /\ corePc = "stop1"
    /\ corePc' = "stop2"
    /\ jobCancel' = [j \in Jobs |->
                        IF jobAuto[j] /\ jobPc[j] \in {"held", "body"} THEN TRUE
                        ELSE jobCancel[j]]
    /\ UNCHANGED <<state, errors, empty, runPc, runExcs, tgVars, monPc, monCancel,
                   coreCancel, closedErrors, jobPc, jobImm, jobAuto, jobEnd, jobErr,
                   jobSeen>>
    /\ UNCHANGED <<propVars, extVars>>

(* _runner_shutdown: the group of the asynchronous stop hooks, each under    *)
(* its timeout (failures suppressed). *)
CoreStop2 ==
    /\ corePc = "stop2"
    /\ corePc' = "stop3"
    /\ UNCHANGED <<state, errors, empty, runPc, runExcs, tgVars, monPc, monCancel,
                   coreCancel, closedErrors, jobVars>>
    /\ UNCHANGED <<propVars, extVars>>

(* the close hooks (failures suppressed), CLOSED, and the end of the runner  *)
(* core: the group of Circuit._errors, or CancelledError if there is none.   *)
CoreStop3 ==
    /\ corePc = "stop3"
    /\ corePc' = "done"
    /\ state' = SetState(state, CLOSED)
    /\ closedErrors' = ClosedNow(state, CLOSED, errors, closedErrors)
    /\ innerLeaves' = innerLeaves \o errors
    /\ innerAborting' = (innerAborting \/ errors # << >>)
    /\ monCancel' = IF errors # << >> /\ ~innerAborting /\ InnerCancelMon THEN TRUE
                    ELSE monCancel
    /\ UNCHANGED <<errors, empty, runPc, runExcs, outerLeaves, outerAborting, rzPc,
                   rzCancel, monPc, coreCancel, jobVars>>
    /\ UNCHANGED <<propVars, extVars>>

Next ==
    \/ \E err \in ExtErrors : ExternalAbort(err)
    \/ ExternalShutdown
    \/ \E j \in Services, imm \in BOOLEAN, auto \in BOOLEAN : CreateService(j, imm, auto)
    \/ \E j \in Services : CancelService(j)
    \/ \E j \in Jobs : WatchdogHeld(j)
    \/ \E j \in Jobs, how \in {"return", "raise", "cancel"} : WatchdogBody(j, how)
    \/ RunStart
    \/ ShutdownMonitor
    \/ RzRunnerCancelled
    \/ RzRunnerEnd
    \/ RunEnd
    \/ CoreStart
    \/ CoreCancelled
    \/ \E ok \in BOOLEAN : CoreInit1(ok)
    \/ \E err \in {NoError, ErrInit, ErrStart} : CoreInit2(err)
    \/ CoreStop1
    \/ CoreStop2
    \/ CoreStop3

Spec == Init /\ [][Next]_vars

-----------------------------------------------------------------------------
(* Event dispatch and propagation.  A call is synchronous and runs to       *)
(* completion, so it is an operator on a record st: the fields of the units  *)
(* and of the Circuit, the history of the call (log, nf: the number of       *)
(* Block._set_output calls so far), and the outcome of the call that         *)
(* returned last: the exception it raised (exc) or what it returned (ret,    *)
(* val, trg).  An exception is <<origin, kind, serial>>.                     *)
Raise(st, exc) == [st EXCEPT !.exc = exc]
NewExc(st, origin, kind) == <<origin, kind, Len(st.errs)>>
Entry(k, u, t, r, fr) ==
    [k |-> k, u |-> u, t |-> t, r |-> r, fr |-> fr, ok |-> TRUE, exc |-> NoExc]
Note(st, e) == [st EXCEPT !.log = Append(@, e)]

(* abort that begins the shutdown without recording the error (mutant) *)
abort_NotRecorded(st, err) == [st EXCEPT !.phase = AbortState(st.errs, st.phase, err)]

(* Circuit.abort *)
abort(st, err) ==
    [st EXCEPT !.errs = AbortErrors(st.errs, err),
               !.phase = AbortState(st.errs, st.phase, err)]

(* Circuit.is_shut_down: the Circuit has begun its shutdown *)
is_shut_down(cur) == cur >= SHUTDOWN

(* no event type taken for one of the read-only family (mutant) *)
IsGet_Never(etype) == FALSE

(* the event types of the read-only family: etype.startswith('_get_') *)
IsGet(etype) == etype = "_get_output"

(* the in-flight test of the any-type variant (mutant) *)
EventInProgress_AnyType(active, etype) == active # {}

(* etype in self._etypes_active *)
EventInProgress(active, etype) == etype \in active

(* set union that keeps every element of both operands (mutant) *)
SetUnion_Concat(acc, new) == acc \o new

(* triggers |= ...: a Python set, kept as a sequence without duplicates *)
SetUnion(acc, new) == acc \o SelectSeq(new, LAMBDA x : ~InSeq(x, acc))

(* the order a Python set is iterated in: one of two orders per run *)
Reverse(s) == [i \in 1 .. Len(s) |-> s[Len(s) + 1 - i]]
IterOrder(S, reg, r) == SelectSeq(IF r THEN Reverse(reg) ELSE reg, LAMBDA x : x \in S)

(* the dependent Formulas of a Block only (mutant) *)
DependentFormulas_OfBlocks(c, u) ==
    IF u \in Blocks THEN {f \in Formulas \cap Items(c) : u \in InputsOf(f)} ELSE {}

(* _dependent_formulas, filled by Formula.rz_pre_init *)
DependentFormulas(c, u) == {f \in Formulas \cap Items(c) : u \in InputsOf(f)}

(* _dependent_triggers, filled by Trigger.rz_pre_init *)
DependentTriggers(c, u) == {t \in Triggers \cap Items(c) : u \in InputsOf(t)}

(* history: every Formula with defined inputs holds the value of its         *)
(* function for the current outputs                                          *)
Consistent(st) ==
    \A f \in Formulas \cap Items(st.c) :
        (\A i \in InputsOf(f) : st.out[i] # UNDEF) => st.out[f] = FnValue(f, st.out)

(* _set_output that takes UNDEF for a value (mutant) *)
Base_set_output_AcceptUndef(st, u, output, fr) ==
    IF output = st.out[u] THEN [st EXCEPT !.ret = FALSE]
    ELSE [Note(st, Entry("set", u, "", "", fr))
             EXCEPT !.prev[u] = st.out[u], !.out[u] = output, !.ret = TRUE]

(* _set_output without the comparison with the current output (mutant) *)
Base_set_output_NoCompare(st, u, output, fr) ==
    IF output = UNDEF THEN Raise(st, NewExc(st, u, "Cannot set output to UNDEF"))
    ELSE [Note(st, Entry("set", u, "", "", fr))
             EXCEPT !.prev[u] = st.out[u], !.out[u] = output, !.ret = TRUE]

(* BlockOrFormula._set_output *)
Base_set_output(st, u, output, fr) ==
    IF output = UNDEF THEN Raise(st, NewExc(st, u, "Cannot set output to UNDEF"))
    ELSE IF output = st.out[u] THEN [st EXCEPT !.ret = FALSE]
    ELSE [Note(st, Entry("set", u, "", "", fr))
             EXCEPT !.prev[u] = st.out[u], !.out[u] = output, !.ret = TRUE]

RECURSIVE event(_, _, _, _), evaluate(_, _, _), evaluate_all(_, _, _, _), run_all(_, _, _)

(* The call of self._func: the function of a unit may send an event before it  *)
(* returns.                                                                  *)
call_function(st, u) ==
    IF FnRaises(u, st.out) THEN Raise(st, NewExc(st, u, "function failed"))
    ELSE IF FnEffect(u, st.out) = NoEffect THEN st
    ELSE event(st, FnEffect(u, st.out)[1], FnEffect(u, st.out)[2], FnEffect(u, st.out)[3])

(* the failure of the function is raised to the caller only (mutant) *)
run_function_end_NoAbort(st, value) == IF st.exc = NoExc THEN [st EXCEPT !.val = value] ELSE st

(* _ExtFunction.run_function after the call: the value of the function, or   *)
(* abort and re-raise                                                        *)
run_function_end(st, value) ==
    IF st.exc = NoExc THEN [st EXCEPT !.val = value] ELSE abort(st, st.exc)

(* history: the arguments the function of u is given *)
ArgsKind(st, u) == IF \E i \in InputsOf(u) : st.out[i] = UNDEF THEN "undef" ELSE "defined"

(* run_function without the test for UNDEF arguments (mutant) *)
run_function_NoUndefTest(st, u, fr) ==
    run_function_end(
        call_function(Note(st, [Entry("fn", u, "", ArgsKind(st, u), fr)
                                   EXCEPT !.ok = Consistent(st)]), u),
        FnValue(u, st.out))

(* _ExtFunction.run_function *)
run_function(st, u, fr) ==
    IF \E i \in InputsOf(u) : st.out[i] = UNDEF
    THEN IF st.phase < RUNNING THEN [Note(st, Entry("skip", u, "", "", fr)) EXCEPT !.val = UNDEF]
         ELSE Raise(Note(st, Entry("skip", u, "", "", fr)), NewExc(st, u, "AssertionError"))
    ELSE run_function_end(
             call_function(Note(st, [Entry("fn", u, "", ArgsKind(st, u), fr)
                                        EXCEPT !.ok = Consistent(st)]), u),
             FnValue(u, st.out))

(* Trigger.run *)
run(st, t, fr) ==
    IF st.enabled[t] THEN run_function(Note(st, Entry("run", t, "", "enabled", fr)), t, fr)
    ELSE Note(st, Entry("run", t, "", "disabled", fr))

(* for trg in triggers: trg.run() *)
run_rest(st, trgs, fr) == IF st.exc # NoExc THEN st ELSE run_all(st, trgs, fr)
run_all(st, trgs, fr) ==
    IF trgs = << >> THEN st ELSE run_rest(run(st, Head(trgs), fr), Tail(trgs), fr)

(* for frm in self._dependent_formulas: triggers |= frm.evaluate() *)
evaluate_rest(st, frms, acc, fr) ==
    IF st.exc # NoExc THEN st ELSE evaluate_all(st, frms, SetUnion(acc, st.trg), fr)
evaluate_all(st, frms, acc, fr) ==
    IF frms = << >> THEN [st EXCEPT !.trg = acc]
    ELSE evaluate_rest(evaluate(st, Head(frms), fr), Tail(frms), acc, fr)

(* Formula.evaluate after the loop over the dependent Formulas: the flag is  *)
(* reset unless an exception left the loop                                   *)
evaluate_end(st, f) == IF st.exc # NoExc THEN st ELSE [st EXCEPT !.active[f] = FALSE]

(* Formula.evaluate after self._set_output(result) *)
evaluate_dependents(st, f, fr) ==
    IF ~st.ret THEN [st EXCEPT !.trg = << >>]
    ELSE evaluate_end(
             evaluate_all([st EXCEPT !.active[f] = TRUE],
                 IterOrder(DependentFormulas(st.c, f), RegFormulas, st.rev),
                 IterOrder(DependentTriggers(st.c, f), RegTriggers, FALSE), fr), f)

(* Formula.evaluate after run_function() *)
evaluate_result(st, f, fr) ==
    IF st.exc # NoExc THEN st
    ELSE IF st.val = UNDEF THEN [st EXCEPT !.trg = << >>]
    ELSE evaluate_dependents(Base_set_output(st, f, st.val, fr), f, fr)

(* Formula.evaluate *)
evaluate(st, f, fr) ==
    IF st.active[f]
    THEN Raise(Note(st, Entry("eval", f, "", "cycle", fr)),
               NewExc(st, f, "detected a dependency loop"))
    ELSE Note(evaluate_result(run_function(Note(st, Entry("eval", f, "", "run", fr)), f, fr),
                              f, fr),
              Entry("evalx", f, "", "", fr))

(* Block._set_output after the Triggers were run *)
Block_return(st, b, fr) ==
    IF st.exc # NoExc THEN st ELSE Note([st EXCEPT !.ret = TRUE], Entry("ret", b, "", "", fr))

(* Block._set_output after the dependent Formulas were evaluated *)
Block_run_triggers(st, b, fr) ==
    IF st.exc # NoExc THEN st
    ELSE Block_return(run_all(st, IF st.rev THEN Reverse(st.trg) ELSE st.trg, fr), b, fr)

(* Block._set_output that ignores always_trigger (mutant) *)
Block_propagate_NeverNotify(st, b, output, fr) ==
    IF st.exc # NoExc THEN st
    ELSE IF ~st.ret THEN st
    ELSE Block_run_triggers(
             evaluate_all(st,
                 IterOrder(DependentFormulas(st.c, b), RegFormulas, st.rev),
                 IterOrder(DependentTriggers(st.c, b), RegTriggers, FALSE), fr), b, fr)

(* Block._set_output after super()._set_output(output) *)
Block_propagate(st, b, output, fr) ==
    IF st.exc # NoExc THEN st
    ELSE IF ~st.ret /\ ~AlwaysTrigger(st.c, b) THEN st
    ELSE Block_run_triggers(
             evaluate_all(IF st.ret THEN st ELSE [st EXCEPT !.prev[b] = output],
                 IterOrder(DependentFormulas(st.c, b), RegFormulas, st.rev),
                 IterOrder(DependentTriggers(st.c, b), RegTriggers, FALSE), fr), b, fr)

(* history: what the value given to _set_output is to the current output *)
SetKind(st, b, output) ==
    IF output = UNDEF THEN "undef" ELSE IF output = st.out[b] THEN "same" ELSE "new"

(* Block._set_output of an initialized Block *)
Block_set_output(st, b, output) ==
    Block_propagate(
        Base_set_output(Note([st EXCEPT !.nf = @ + 1],
                             Entry("frame", b, "", SetKind(st, b, output), st.nf + 1)),
                        b, output, st.nf + 1),
        b, output, st.nf + 1)

(* the handler of the event: Memory._event_store, a forwarding handler,      *)
(* Block._event__get_output, a handler that raises, or                       *)
(* Block._default_event_handler                                              *)
handler(st, b, etype, evalue) ==
    CASE HandlerOf(b, etype) = "get" -> [st EXCEPT !.val = st.out[b]]
      [] HandlerOf(b, etype) = "raise" -> Raise(st, NewExc(st, b, "handler failed"))
      [] HandlerOf(b, etype) = "store" -> Block_set_output(st, b, evalue)
      [] HandlerOf(b, etype) = "forward" ->
             event(st, b, Forward(etype, evalue)[1], Forward(etype, evalue)[2])
      [] OTHER -> Raise(st, NewExc(st, b, "UnknownEvent"))

(* the event type removed only when the handler returned (mutant) *)
event_finally_OnReturnOnly(st, b, etype) ==
    Note(IF st.exc = NoExc THEN [st EXCEPT !.etypes[b] = @ \ {etype}] ELSE st,
         Entry("evx", b, etype, "", 0))

(* Block.event, the finally clause *)
event_finally(st, b, etype) ==
    Note([st EXCEPT !.etypes[b] = @ \ {etype}], Entry("evx", b, etype, "", 0))

(* the except clauses that also pass the exception to abort (mutant) *)
event_except_Abort(st) == IF st.exc = NoExc THEN st ELSE abort(st, st.exc)

(* Block.event, the except clauses around the handler call: UnknownEvent is  *)
(* re-raised, any other exception gets a note and is re-raised               *)
event_except(st) == st

(* Block.event, the re-entrancy error: abort(exc), raise exc *)
event_reentrant(st, b, etype, exc) ==
    Raise(abort(Note(st, [Entry("ev", b, etype, "reentrant", 0) EXCEPT !.exc = exc]), exc),
          exc)

(* Block.rz_is_shut_down asks the Circuit; an output Block overrides it and   *)
(* returns its own flag                                                      *)
rz_is_shut_down(st, b) == IF st.own[b] THEN st.shut[b] ELSE is_shut_down(st.phase)

(* Block.event of an initialized Block without persistence *)
event(st, b, etype, evalue) ==
    IF ~IsGet(etype) /\ rz_is_shut_down(st, b)
    THEN Raise(Note(st, Entry("ev", b, etype, "shutdown", 0)),
               NewExc(st, b, "The circuit was shut down"))
    ELSE IF EventInProgress(st.etypes[b], etype)
    THEN event_reentrant(st, b, etype,
                         NewExc(st, b, "generated another event of the same type"))
    ELSE event_finally(
             event_except(handler(Note([st EXCEPT !.etypes[b] = @ \cup {etype}],
                                       Entry("ev", b, etype, "admitted", 0)),
                                  b, etype, evalue)),
             b, etype)

(* The calls made from outside of the propagation: by the runner, by a job *)
(* or by the application.                                                    *)
lifeRest == <<empty, runPc, runExcs, tgVars, monPc, monCancel, coreCancel, closedErrors,
              jobVars>>

(* the state a call starts in *)
St ==
    [c |-> circ, rev |-> rev, out |-> out, prev |-> outPrev, active |-> evaluateActive,
     etypes |-> etypesActive, enabled |-> enabled, phase |-> state, errs |-> errors,
     own |-> [b \in Blocks |-> hooks[b].stop = "flag"], shut |-> shutFlag,
     log |-> << >>, nf |-> 0, exc |-> NoExc, ret |-> FALSE, val |-> UNDEF, trg |-> << >>]

(* the state a call ends in *)
Commit(r) ==
    /\ out' = r.out
    /\ outPrev' = r.prev
    /\ evaluateActive' = r.active
    /\ etypesActive' = r.etypes
    /\ enabled' = r.enabled
    /\ state' = r.phase
    /\ errors' = r.errs
    /\ calls' = r.log
    /\ raised' = r.exc
    /\ UNCHANGED <<circ, rev, lifeRest, extVars>>

(* The runner is in _runner_init, with the Blocks initialized to 0 and the   *)
(* start hooks not called yet; run() was called with one supporting job.     *)
InitProp ==
    /\ state = INIT_BLOCKS
    /\ errors = << >>
    /\ empty = FALSE
    /\ runPc = "running"
    /\ runExcs = << >>
    /\ outerLeaves = << >>
    /\ outerAborting = FALSE
    /\ rzPc = "waiting"
    /\ rzCancel = FALSE
    /\ innerAborting = FALSE
    /\ innerLeaves = << >>
    /\ monPc = "wait"
    /\ monCancel = FALSE
    /\ corePc = "init2"
    /\ coreCancel = FALSE
    /\ closedErrors = << >>
    /\ jobPc = [j \in Jobs |-> IF j \in Supporting THEN "body" ELSE "absent"]
    /\ jobCancel = [j \in Jobs |-> FALSE]
    /\ jobImm = [j \in Jobs |-> TRUE]
    /\ jobAuto = [j \in Jobs |-> FALSE]
    /\ jobEnd = [j \in Jobs |-> "none"]
    /\ jobErr = [j \in Jobs |-> NoError]
    /\ jobSeen = [j \in Jobs |-> IF j \in Supporting THEN UNDER_CONSTRUCTION ELSE -1]
    /\ circ \in Circuits
    /\ rev \in BOOLEAN
    /\ out = [u \in Outputs |-> IF u \in Blocks THEN 0 ELSE UNDEF]
    /\ outPrev = [u \in Outputs |-> UNDEF]
    /\ evaluateActive = [f \in Formulas |-> FALSE]
    /\ etypesActive = [b \in Blocks |-> {}]
    /\ enabled = [t \in Triggers |-> FALSE]
    /\ calls = << >>
    /\ raised = NoExc
    /\ NoWaiters
    /\ NoItems
    /\ NotInitialized
    /\ NoHooks

(* Formula.rz_start and Trigger.rz_start, in the order of _runner_init *)
RECURSIVE start_all(_, _)
start_rest(st, items) == IF st.exc # NoExc THEN st ELSE start_all(st, items)
start_all(st, items) ==
    IF items = << >> THEN st
    ELSE start_rest(IF Head(items) \in Formulas THEN evaluate(st, Head(items), 0)
                    ELSE run([st EXCEPT !.enabled[Head(items)] = TRUE], Head(items), 0),
                    Tail(items))

(* _runner_core after _runner_init: RUNNING, or abort(err) *)
start_end(st) ==
    IF st.exc = NoExc THEN [st EXCEPT !.phase = SetState(st.phase, RUNNING)]
    ELSE abort(st, st.exc)

(* _runner_init: the start hooks of the Formulas, then of the Triggers; a    *)
(* failure is passed to abort by _runner_core, else RUNNING is set.          *)
StartUnits ==
    /\ corePc = "init2"
    /\ state = INIT_BLOCKS
    /\ \E r \in {start_end(start_all(St, IterOrder(Items(circ), RegFormulas, FALSE)
                                           \o IterOrder(Items(circ), RegTriggers, FALSE)))} :
          Commit(r)
    /\ corePc' = "idle"

(* The events sent: every type a Block has a handler for and one it has no  *)
(* handler for; the value matters to the handlers that store it.            *)
Events ==
    {e \in Blocks \X ETypes \X Values :
        /\ e[2] \in {"bogus", "error", "_get_output"} => e[3] = 0
        /\ e[1] = "b" => e[2] \in {"store", "bogus", "error", "_get_output"}}

(* A job or the application sends an event to a Block of the running         *)
(* circuit.                                                                  *)
SendEvent(b, etype, evalue) ==
    /\ state >= RUNNING
    /\ \E r \in {event(St, b, etype, evalue)} : Commit(r)
    /\ UNCHANGED corePc

(* A Block sets its output outside of an event (an initializer, a timer, a   *)
(* poller) until the shutdown begins.                                        *)
SetOutput(b, output) ==
    /\ ~after_shutdown(state)
    /\ \E r \in {Block_set_output(St, b, output)} : Commit(r)
    /\ UNCHANGED corePc

NextProp ==
    \/ StartUnits
    \/ \E e \in Events : SendEvent(e[1], e[2], e[3])
    \/ \E b \in Blocks, output \in Values : SetOutput(b, output)

SpecProp == InitProp /\ [][NextProp]_vars

-----------------------------------------------------------------------------
(* The wait for a phase.  reached_state suspends on the asyncio.Event        *)
(* Circuit._state_change, which the first waiter creates and _set_state      *)
(* sets and forgets.  A waiter resumes in a later step of the event loop     *)
(* than the set(), so phase changes and other waiters come in between.       *)

(* _set_state forgetting the Event without setting it (mutant) *)
EventsSetAfter_Forgotten(cur, newstate, sc, evs) == evs

(* _set_state: the Events that are set after the call *)
EventsSetAfter(cur, newstate, sc, evs) ==
    IF newstate <= cur THEN evs
    ELSE IF sc # 0 THEN evs \cup {sc}
    ELSE evs

(* _set_state: Circuit._state_change after the call *)
StateChangeAfter(cur, newstate, sc) == IF newstate <= cur THEN sc ELSE 0

(* the phase shutdown() passes to _set_state; the current phase if none *)
ShutdownTarget(cur) ==
    IF after_shutdown(cur) THEN cur
    ELSE IF cur = UNDER_CONSTRUCTION THEN CLOSED
    ELSE SHUTDOWN

restWait == <<errors, lifeRest, corePc, propVars, regVars, initVars, stopVars>>

(* Circuit._set_state called with newstate *)
WaitSetState(newstate) ==
    /\ state' = SetState(state, newstate)
    /\ evSet' = EventsSetAfter(state, newstate, stateChange, evSet)
    /\ stateChange' = StateChangeAfter(state, newstate, stateChange)
    /\ UNCHANGED <<evCount, wPc, wWant, wEv, wRet, wAt, restWait>>

(* the runner core: the next phase, and RUNNING after an abort *)
WaitRunnerStep(newstate) ==
    /\ \/ newstate = state + 1
       \/ state = SHUTDOWN /\ newstate = RUNNING
    /\ newstate \in CircuitState
    /\ WaitSetState(newstate)

(* Circuit.shutdown *)
WaitShutdown ==
    /\ ~after_shutdown(state)
    /\ WaitSetState(ShutdownTarget(state))

(* reached_state, from the test of the while loop to the next suspension or *)
(* to the return                                                             *)
ReachedStateLoop(w, wanted) ==
    IF state < wanted
    THEN /\ wPc' = [wPc EXCEPT ![w] = "waiting"]
         /\ stateChange' = IF stateChange = 0 THEN evCount + 1 ELSE stateChange
         /\ evCount' = IF stateChange = 0 THEN evCount + 1 ELSE evCount
         /\ wEv' = [wEv EXCEPT ![w] = stateChange']
         /\ UNCHANGED <<wRet, wAt>>
    ELSE /\ wPc' = [wPc EXCEPT ![w] = "returned"]
         /\ wRet' = [wRet EXCEPT ![w] = reached_state(state, wanted)]
         /\ wAt' = [wAt EXCEPT ![w] = state]
         /\ UNCHANGED <<stateChange, evCount, wEv>>

(* a job calls reached_state(wanted) *)
WaiterCall(w, wanted) ==
    /\ wPc[w] = "idle"
    /\ wWant' = [wWant EXCEPT ![w] = wanted]
    /\ ReachedStateLoop(w, wanted)
    /\ UNCHANGED <<state, evSet, restWait>>

(* the waiter resumes after its Event was set *)
WaiterWake(w) ==
    /\ wPc[w] = "waiting"
    /\ wEv[w] \in evSet
    /\ ReachedStateLoop(w, wWant[w])
    /\ UNCHANGED <<state, evSet, wWant, restWait>>

InitWait == Init /\ empty = FALSE

NextWait ==
    \/ \E newstate \in CircuitState : WaitRunnerStep(newstate)
    \/ WaitShutdown
    \/ \E w \in Waiters, wanted \in CircuitState : WaiterCall(w, wanted)
    \/ \E w \in Waiters : WaiterWake(w)

(* The event loop runs every task whose awaited future is done.              *)
SpecWait == InitWait /\ [][NextWait]_vars /\ \A w \in Waiters : WF_vars(WaiterWake(w))

-----------------------------------------------------------------------------
(* Registration.  The constructor of a Block, a Formula or a Trigger calls   *)
(* Circuit.rz_add_item.                                                      *)

(* _check_not_started refusing a closed Circuit only (mutant) *)
check_not_started_ClosedOnly(cur) == IF cur = CLOSED THEN "closed" ELSE "none"

(* Circuit._check_not_started: the error it raises, or "none" *)
check_not_started(cur) ==
    IF cur = CLOSED THEN "closed"
    ELSE IF cur > INIT_CIRCUIT THEN "started"
    ELSE "none"

(* the name test of the always-new variant (mutant) *)
HasName_Never(reg, name) == FALSE

(* item.name in self._blocks *)
HasName(reg, name) == \E i \in 1 .. Len(reg) : reg[i][1] = name

(* Circuit.rz_add_item: the error it raises, or "ok" *)
AddItemResult(cur, reg, kind, name) ==
    IF check_not_started(cur) # "none" THEN check_not_started(cur)
    ELSE IF kind = "Trigger" THEN "ok"
    ELSE IF HasName(reg, name) THEN "duplicate"
    ELSE "ok"

restReg == <<state, errors, lifeRest, corePc, propVars, waitVars, initVars, stopVars>>

(* a unit of the given kind and name is constructed; a Trigger has no name *)
Register(kind, name) ==
    /\ kind = "Trigger" => name = "none" /\ triggersReg < MaxTriggers
    /\ kind # "Trigger" => name \in Names
    /\ regLast' = [kind |-> kind, name |-> name, phase |-> state,
                   result |-> AddItemResult(state, blocksReg, kind, name)]
    /\ blocksReg' = IF regLast'.result = "ok" /\ kind # "Trigger"
                    THEN Append(blocksReg, <<name, kind>>) ELSE blocksReg
    /\ triggersReg' = IF regLast'.result = "ok" /\ kind = "Trigger"
                      THEN triggersReg + 1 ELSE triggersReg
    /\ UNCHANGED restReg

InitReg == Init /\ empty = FALSE

NextReg ==
    \/ \E kind \in Kinds, name \in Names \cup {"none"} : Register(kind, name)
    \/ \E newstate \in CircuitState : WaitRunnerStep(newstate)
    \/ WaitShutdown

SpecReg == InitReg /\ [][NextReg]_vars

-----------------------------------------------------------------------------
(* Initialization of the Blocks: _runner_init in steps.  A synchronous part  *)
(* is an operator on a record s: the state st of the propagation and the     *)
(* Blocks' initialization records ib.                                        *)

(* Block.is_undef: the output is the UNDEF marker *)
is_undef(o, b) == o[b] = UNDEF

ErrNotInit(b) == <<b, "was not initialized">>
ErrPreInitOf(u) == <<u, "rz_pre_init failed">>
ErrInitGroup(b) == <<b, "unhandled errors in a TaskGroup: rz_init failed">>

IS == [st |-> St, ib |-> ib]

(* Block._set_output of a Block that may be uninitialized: a pending         *)
(* initializer task is cancelled and forgotten, init_block_async goes on     *)
(* when it is resumed.                                                       *)
Init_set_output(s, b, output) ==
    [s EXCEPT !.st = Block_set_output(s.st, b, output),
              !.ib[b].init_task = IF s.st.out[b] = UNDEF THEN 0 ELSE @,
              !.ib[b].pc = IF s.st.out[b] = UNDEF /\ s.ib[b].init_task # 0 /\ @ = "await"
                           THEN "resume" ELSE @]

(* SyncInitializer.apply_to after the _applied test *)
sync_apply(s, b, k) ==
    IF GetInitRaises(k) THEN [s EXCEPT !.ib[b].log_errors = @ + 1]
    ELSE IF InitValueOf(k) = UNDEF THEN s
    ELSE IF RzInitRaises(InitValueOf(k)) THEN [s EXCEPT !.ib[b].log_errors = @ + 1]
    ELSE Init_set_output(s, b, InitValueOf(k))

(* apply_to applying an initializer again (mutant) *)
apply_to_Again(s, b, i) ==
    sync_apply([s EXCEPT !.ib[b].applied = Append(@, i)], b, s.ib[b].inits[i])

(* SyncInitializer.apply_to *)
apply_to(s, b, i) ==
    IF InSeq(i, s.ib[b].applied) THEN s
    ELSE sync_apply([s EXCEPT !.ib[b].applied = Append(@, i)], b, s.ib[b].inits[i])

(* Block.rz_init_default: None (here 0) for a Block without rz_init *)
rz_init_default(s, b) ==
    IF s.st.out[b] = UNDEF /\ ~has_rz_init(s.ib[b].kind) THEN Init_set_output(s, b, 0)
    ELSE s

(* _init_block_core after the loop *)
init_default(s, b) == IF is_undef(s.st.out, b) THEN rz_init_default(s, b) ELSE s

(* init_block_sync: _init_block_core from initializer i on, the              *)
(* asynchronous initializers left out                                        *)
RECURSIVE init_block_sync(_, _, _)
init_block_sync(s, b, i) ==
    IF i > Len(s.ib[b].inits) THEN init_default(s, b)
    ELSE IF ~is_undef(s.st.out, b) THEN s
    ELSE IF IsAsync(s.ib[b].inits[i]) THEN init_block_sync(s, b, i + 1)
    ELSE init_block_sync(apply_to(s, b, i), b, i + 1)

(* init_block_async: _init_block_core from initializer i on, up to the next  *)
(* await of an initializer task or to the end                                *)
RECURSIVE init_block_async(_, _, _)
init_block_async(s, b, i) ==
    IF i > Len(s.ib[b].inits) THEN [init_default(s, b) EXCEPT !.ib[b].pc = "done"]
    ELSE IF ~is_undef(s.st.out, b) THEN [s EXCEPT !.ib[b].pc = "done"]
    ELSE IF IsAsync(s.ib[b].inits[i])
    THEN [s EXCEPT !.ib[b].pc = "await", !.ib[b].pos = i, !.ib[b].init_task = i,
                   !.ib[b].applied = Append(@, i)]
    ELSE init_block_async(apply_to(s, b, i), b, i + 1)

(* what the coroutine of an asynchronous initializer can do *)
Outcomes(k) ==
    CASE k = "wait" -> {"timeout"}
      [] k = "task" -> {"value", "raise", "timeout"}
      [] k = "taskbad" -> {"value"}

(* the TaskGroup of _init_blocks aborts: the other tasks are cancelled *)
CancelTasks(blocks, b) ==
    [c \in Blocks |->
        IF c # b /\ blocks[c].pc \in {"start", "await", "resume"}
        THEN [blocks[c] EXCEPT !.pc = "cancelled"] ELSE blocks[c]]

(* AsyncInitializer.async_apply_to after the value v was obtained: an        *)
(* exception of rz_init leaves the task and init_block_async                 *)
async_apply_value(s, b, v) ==
    IF ~is_undef(s.st.out, b) THEN [s EXCEPT !.ib[b].pc = "resume"]
    ELSE IF RzInitRaises(v)
    THEN [s EXCEPT !.ib = CancelTasks([s.ib EXCEPT ![b].pc = "failed"], b)]
    ELSE [Init_set_output(s, b, v) EXCEPT !.ib[b].pc = "resume"]

(* AsyncInitializer.async_apply_to, from the end of _async_get_init *)
async_apply_to(s, b, k, outcome) ==
    CASE outcome = "timeout" ->
             [s EXCEPT !.ib[b].pc = "resume", !.ib[b].wait_over = (k = "wait") \/ @]
      [] outcome = "raise" -> [s EXCEPT !.ib[b].pc = "resume", !.ib[b].log_errors = @ + 1]
      [] OTHER -> async_apply_value(s, b, InitValueOf(k))

(* _init_blocks: the Blocks with synchronous initializers only, one by one *)
RECURSIVE init_sync_blocks(_, _)
init_sync_blocks(s, blks) ==
    IF blks = << >> THEN s
    ELSE init_sync_blocks(init_block_sync(s, Head(blks), 1), Tail(blks))

HasAsync(inits) == \E i \in 1 .. Len(inits) : IsAsync(inits[i])
SyncBlocks(s) ==
    SelectSeq(RegBlocks, LAMBDA b : is_undef(s.st.out, b) /\ ~HasAsync(s.ib[b].inits))
AsyncBlocks(s) ==
    SelectSeq(RegBlocks, LAMBDA b : is_undef(s.st.out, b) /\ HasAsync(s.ib[b].inits))

(* tg.create_task(self.init_block_async(blk)) *)
create_tasks(s, blks) ==
    [s EXCEPT !.ib = [b \in Blocks |-> IF InSeq(b, blks) THEN [s.ib[b] EXCEPT !.pc = "start"]
                                       ELSE s.ib[b]]]

(* the Blocks the final check finds uninitialized *)
StillUndef(s) == {b \in Blocks : is_undef(s.st.out, b)}

(* the final check raising for the last uninitialized Block (mutant) *)
final_check_error_Last(s) ==
    ErrNotInit(SelectSeq(RegBlocks, LAMBDA b : is_undef(s.st.out, b))[
                   Len(SelectSeq(RegBlocks, LAMBDA b : is_undef(s.st.out, b)))])

(* _init_blocks, the final check: the error for the first Block found *)
final_check_error(s) ==
    ErrNotInit(Head(SelectSeq(RegBlocks, LAMBDA b : is_undef(s.st.out, b))))

(* _init_blocks without the final check (mutant) *)
init_finish_NoCheck(s) ==
    [s EXCEPT !.st = start_end(start_all(s.st,
                         IterOrder(Items(s.st.c), RegFormulas, FALSE)
                         \o IterOrder(Items(s.st.c), RegTriggers, FALSE)))]

(* _runner_init from the final check on, and _runner_core after it: the      *)
(* error of the check is passed to abort; else the start hooks, then RUNNING *)
init_finish(s) ==
    IF StillUndef(s) # {} THEN [s EXCEPT !.st = abort(s.st, final_check_error(s))]
    ELSE [s EXCEPT !.st = start_end(start_all(s.st,
                              IterOrder(Items(s.st.c), RegFormulas, FALSE)
                              \o IterOrder(Items(s.st.c), RegTriggers, FALSE)))]

(* the pre-init loop going on after a failure (mutant) *)
pre_init_all_Every(units, fail, called) == called \o units

(* the pre-init hooks, one by one: the units whose hook was called *)
RECURSIVE pre_init_all(_, _, _)
pre_init_all(units, fail, called) ==
    IF units = << >> THEN called
    ELSE IF Head(units) \in fail THEN Append(called, Head(units))
    ELSE pre_init_all(Tail(units), fail, Append(called, Head(units)))

restInit == <<circ, rev, etypesActive, calls, lifeRest, waitVars, regVars, preFail, stopVars>>

(* the state a step of the initialization ends in *)
CommitInit(s) ==
    /\ out' = s.st.out
    /\ outPrev' = s.st.prev
    /\ evaluateActive' = s.st.active
    /\ enabled' = s.st.enabled
    /\ state' = s.st.phase
    /\ errors' = s.st.errs
    /\ ib' = s.ib
    /\ UNCHANGED restInit

(* _runner_init after the first sleep(0): return after a shutdown, else the  *)
(* pre-init hooks of the Blocks, the Formulas and the Triggers.  The first   *)
(* exception leaves the loop and _runner_init and is passed to abort.        *)
IPreInit ==
    /\ corePc = "init1"
    /\ ~coreCancel
    /\ IF after_shutdown(state)
       THEN /\ corePc' = "idle"
            /\ state' = SetState(state, RUNNING)
            /\ UNCHANGED <<errors, preRun>>
       ELSE /\ preRun' = pre_init_all(PreOrder, preFail, << >>)
            /\ IF preRun'[Len(preRun')] \in preFail
               THEN /\ errors' = AbortErrors(errors, ErrPreInitOf(preRun'[Len(preRun')]))
                    /\ state' = AbortState(errors, state, ErrPreInitOf(preRun'[Len(preRun')]))
                    /\ corePc' = "idle"
               ELSE /\ state' = SetState(state, INIT_BLOCKS)
                    /\ errors' = errors
                    /\ corePc' = "init2"
    /\ UNCHANGED <<out, outPrev, evaluateActive, enabled, ib, finalUndef, raised, restInit>>

(* _runner_init after the second sleep(0): _init_blocks up to the task group *)
(* of the Blocks with asynchronous initializers; without such Blocks on to   *)
(* the final check, the start hooks and RUNNING.                             *)
IInitBlocks ==
    /\ corePc = "init2"
    /\ ~coreCancel
    /\ \E s \in {create_tasks(init_sync_blocks(IS, SyncBlocks(IS)), AsyncBlocks(IS))} :
          IF AsyncBlocks(IS) = << >>
          THEN /\ CommitInit(init_finish(s))
               /\ finalUndef' = StillUndef(s)
               /\ corePc' = "idle"
          ELSE /\ CommitInit(s)
               /\ finalUndef' = finalUndef
               /\ corePc' = "initwait"
    /\ UNCHANGED <<preRun, raised>>

(* init_block_async of Block b, its first step *)
AsyncStart(b) ==
    /\ corePc = "initwait"
    /\ ib[b].pc = "start"
    /\ CommitInit(init_block_async(IS, b, 1))
    /\ UNCHANGED <<corePc, preRun, finalUndef, raised>>

(* the initializer task of Block b ends *)
AsyncComplete(b, outcome) ==
    /\ corePc = "initwait"
    /\ ib[b].pc = "await"
    /\ outcome \in Outcomes(ib[b].inits[ib[b].pos])
    /\ CommitInit(async_apply_to(IS, b, ib[b].inits[ib[b].pos], outcome))
    /\ UNCHANGED <<corePc, preRun, finalUndef, raised>>

(* init_block_async of Block b goes on after its await *)
AsyncResume(b) ==
    /\ corePc = "initwait"
    /\ ib[b].pc = "resume"
    /\ CommitInit(init_block_async(IS, b, ib[b].pos + 1))
    /\ UNCHANGED <<corePc, preRun, finalUndef, raised>>

(* the task group of _init_blocks is left: with the group of the failures,   *)
(* which is passed to abort, or on to the final check                        *)
IInitFinal ==
    /\ corePc = "initwait"
    /\ \A b \in Blocks : ib[b].pc \in {"none", "done", "failed", "cancelled"}
    /\ IF \E b \in Blocks : ib[b].pc = "failed"
       THEN /\ CommitInit([IS EXCEPT !.st = abort(IS.st,
                               ErrInitGroup(CHOOSE b \in Blocks : ib[b].pc = "failed"))])
            /\ finalUndef' = finalUndef
       ELSE /\ ~coreCancel
            /\ CommitInit(init_finish(IS))
            /\ finalUndef' = StillUndef(IS)
    /\ corePc' = "idle"
    /\ UNCHANGED <<preRun, raised>>

(* the runner core is cancelled while it waits for the task group of         *)
(* _init_blocks: the initialization tasks are cancelled                      *)
ICoreCancelled ==
    /\ corePc = "initwait"
    /\ coreCancel
    /\ \A b \in Blocks : ib[b].pc # "failed"
    /\ coreCancel' = FALSE
    /\ state' = IF ~after_shutdown(state) THEN SetState(state, SHUTDOWN) ELSE state
    /\ corePc' = "stop1"
    /\ ib' = CancelTasks(ib, "-")
    /\ UNCHANGED <<errors, empty, runPc, runExcs, tgVars, monPc, monCancel,
                   closedErrors, jobVars, propVars, waitVars, regVars, stopVars,
                   preFail, preRun, finalUndef>>

(* Block.event of a Block that may be uninitialized, for the event 'store'   *)
(* with the value MaxVal and the event '_get_output': refused after the      *)
(* shutdown, else init_block_sync on demand, then the handler.               *)
(* Block.event without the initialization on demand (mutant) *)
on_demand_Skipped(s, b) == s

on_demand(s, b) == IF s.st.out[b] = UNDEF THEN init_block_sync(s, b, 1) ELSE s
store_handler(s, b, etype) == IF etype = "store" THEN Init_set_output(s, b, MaxVal) ELSE s
event_history(s, b, etype) ==
    [s EXCEPT !.ib[b].got_event = TRUE,
              !.ib[b].first_store = IF etype = "store" /\ @ = "none"
                                    THEN (IF s.ib[b].wait_over THEN "after" ELSE "before")
                                    ELSE @]

InitEvent(b, etype) ==
    /\ etype \in {"store", "_get_output"}
    /\ IF ~IsGet(etype) /\ is_shut_down(state)
       THEN /\ raised' = <<b, "The circuit was shut down", 0>>
            /\ UNCHANGED <<out, outPrev, evaluateActive, enabled, state, errors, ib,
                           restInit>>
       ELSE /\ raised' = NoExc
            /\ CommitInit(store_handler(on_demand(event_history(IS, b, etype), b), b, etype))
    /\ UNCHANGED <<corePc, preRun, finalUndef>>

(* The code of a Block calls self._set_output(UNDEF) before the shutdown     *)
(* has begun.  The call raises ValueError to that code.                      *)
InitSetUndef(b) ==
    /\ ~after_shutdown(state)
    /\ \E s \in {Init_set_output(IS, b, UNDEF)} :
          /\ CommitInit(s)
          /\ raised' = s.st.exc
    /\ UNCHANGED <<corePc, preRun, finalUndef>>

(* run() was called and the runner core is in _runner_init, at its first    *)
(* sleep(0).                                                                 *)
InitInit ==
    /\ NoHooks
    /\ state = INIT_CIRCUIT
    /\ errors = << >>
    /\ empty = FALSE
    /\ runPc = "running"
    /\ runExcs = << >>
    /\ outerLeaves = << >>
    /\ outerAborting = FALSE
    /\ rzPc = "waiting"
    /\ rzCancel = FALSE
    /\ innerAborting = FALSE
    /\ innerLeaves = << >>
    /\ monPc = "wait"
    /\ monCancel = FALSE
    /\ corePc = "init1"
    /\ coreCancel = FALSE
    /\ closedErrors = << >>
    /\ jobPc = [j \in Jobs |-> IF j \in Supporting THEN "body" ELSE "absent"]
    /\ jobCancel = [j \in Jobs |-> FALSE]
    /\ jobImm = [j \in Jobs |-> TRUE]
    /\ jobAuto = [j \in Jobs |-> FALSE]
    /\ jobEnd = [j \in Jobs |-> "none"]
    /\ jobErr = [j \in Jobs |-> NoError]
    /\ jobSeen = [j \in Jobs |-> IF j \in Supporting THEN UNDER_CONSTRUCTION ELSE -1]
    /\ Constructed
    /\ circ = "plain"
    /\ rev = FALSE
    /\ NoWaiters
    /\ NoItems
    /\ preRun = << >>
    /\ finalUndef = {"-"}
    /\ preFail \in SUBSET {"a", "b", "m", "t0"}
    /\ \E pa \in Profiles, pb \in ProfilesB :
          /\ preFail # {} => pa.inits = <<"v0", "v1">> /\ pb = pa
          /\ ib = [b \in Blocks |-> NewBlock(IF b = "a" THEN pa ELSE pb)]

NextInit ==
    \/ IPreInit
    \/ IInitBlocks
    \/ \E b \in Blocks : AsyncStart(b)
    \/ \E b \in Blocks, outcome \in {"value", "raise", "timeout"} : AsyncComplete(b, outcome)
    \/ \E b \in Blocks : AsyncResume(b)
    \/ IInitFinal
    \/ ICoreCancelled
    \/ \E b \in EventBlocks, etype \in {"store", "_get_output"} : InitEvent(b, etype)
    \/ \E b \in EventBlocks : InitSetUndef(b)
    \/ ExternalShutdown
    \/ \E how \in {"return", "raise", "cancel"} : WatchdogBody("t1", how)
    \/ ShutdownMonitor
    \/ RzRunnerCancelled
    \/ RzRunnerEnd
    \/ RunEnd
    \/ CoreCancelled
    \/ CoreStop1
    \/ CoreStop2
    \/ CoreStop3

SpecInit == InitInit /\ [][NextInit]_vars

-----------------------------------------------------------------------------
(* The start and stop hooks.  The chain circuit is run with one supporting   *)
(* job, which either raises at its first step or runs until it is cancelled; *)
(* every Block has InitValue(0).  The Circuit owns auto-cancel service tasks *)
(* that have ended, so _runner_shutdown yields once after the synchronous    *)
(* stop hooks.                                                               *)
StopValue == 1

Hook(start, stop, astop, close) ==
    [start |-> start, stop |-> stop, astop |-> astop, close |-> close]

(* the Blocks a and b of the circuits that are run *)
HookSets ==
    {[b \in Blocks |-> NoHook],
     [b \in Blocks |-> IF b = "a" THEN Hook(TRUE, "set", TRUE, TRUE)
                       ELSE Hook(FALSE, "fail", TRUE, TRUE)],
     [b \in Blocks |-> IF b = "a" THEN Hook(FALSE, "fail", FALSE, TRUE)
                       ELSE Hook(FALSE, "flag", TRUE, FALSE)],
     [b \in Blocks |-> IF b = "a" THEN Hook(FALSE, "none", TRUE, FALSE)
                       ELSE Hook(FALSE, "none", FALSE, TRUE)],
     [b \in Blocks |-> IF b = "a" THEN Hook(TRUE, "ok", FALSE, FALSE)
                       ELSE Hook(TRUE, "set", FALSE, FALSE)]}

HookEntry(h, u, r, e) == [h |-> h, u |-> u, r |-> r, e |-> e]

(* run() was not called yet *)
InitStop ==
    /\ state = UNDER_CONSTRUCTION
    /\ errors = << >>
    /\ empty = FALSE
    /\ runPc = "init"
    /\ runExcs = << >>
    /\ outerLeaves = << >>
    /\ outerAborting = FALSE
    /\ rzPc = "absent"
    /\ rzCancel = FALSE
    /\ innerAborting = FALSE
    /\ innerLeaves = << >>
    /\ monPc = "absent"
    /\ monCancel = FALSE
    /\ corePc = "absent"
    /\ coreCancel = FALSE
    /\ closedErrors = << >>
    /\ jobPc = [j \in Jobs |-> "absent"]
    /\ jobCancel = [j \in Jobs |-> FALSE]
    /\ jobImm = [j \in Jobs |-> TRUE]
    /\ jobAuto = [j \in Jobs |-> FALSE]
    /\ jobEnd = [j \in Jobs |-> "none"]
    /\ jobErr = [j \in Jobs |-> NoError]
    /\ jobSeen = [j \in Jobs |-> -1]
    /\ Constructed
    /\ circ = "chain"
    /\ rev = FALSE
    /\ NoWaiters
    /\ NoItems
    /\ NotInitialized
    /\ hooks \in HookSets
    /\ shutFlag = [b \in Blocks |-> FALSE]
    /\ astopPc = [b \in Blocks |-> "none"]
    /\ hookLog = << >>
    /\ pdict = [b \in Blocks |-> << >>]

(* the supporting job raises at its first step: before the first step of the *)
(* runner core, or after it with eager tasks                                 *)
JobFailsAtStart ==
    /\ corePc \in {"start", "init1"}
    /\ WatchdogBody("t1", "raise")

(* the supporting job runs until it is cancelled *)
JobCancelled == WatchdogBody("t1", "cancel")

(* error_debug(..., suppress_error=True) that also passes the exception to   *)
(* abort (mutant)                                                            *)
error_debug_Recorded(st) == IF st.exc = NoExc THEN st ELSE Raise(abort(st, st.exc), NoExc)

(* error_debug(..., suppress_error=True): an exception is logged and not     *)
(* raised                                                                    *)
error_debug(st) == Raise(st, NoExc)

(* a step of the runner that calls hooks: s.st as in a call, s.log the hooks *)
(* called                                                                    *)
HS == [st |-> St, log |-> hookLog]
Hooked(s, st, h, u) ==
    [st |-> error_debug(st),
     log |-> Append(s.log, HookEntry(h, u, IF st.exc = NoExc THEN "ok" ELSE "raised", st.exc))]

CommitHooks(s) ==
    /\ out' = s.st.out
    /\ outPrev' = s.st.prev
    /\ evaluateActive' = s.st.active
    /\ etypesActive' = s.st.etypes
    /\ enabled' = s.st.enabled
    /\ errors' = s.st.errs
    /\ calls' = s.st.log
    /\ raised' = s.st.exc
    /\ shutFlag' = s.st.shut
    /\ hookLog' = s.log
    /\ UNCHANGED <<circ, rev, hooks, astopPc, waitVars, regVars, initVars>>

(* the start hooks: the Formulas, the Triggers, then the Blocks that have    *)
(* rz_start                                                                  *)
StartOrder(c) ==
    IterOrder(Items(c), RegFormulas, FALSE) \o IterOrder(Items(c), RegTriggers, FALSE)
StartLog(c, hk) ==
    [i \in 1 .. Len(StartOrder(c)) |-> HookEntry("rz_start", StartOrder(c)[i], "ok", NoExc)]
    \o [i \in 1 .. Len(SelectSeq(RegBlocks, LAMBDA b : hk[b].start)) |->
            HookEntry("rz_start", SelectSeq(RegBlocks, LAMBDA b : hk[b].start)[i], "ok",
                      NoExc)]

(* _runner_init after the second sleep(0): _init_blocks gives every Block    *)
(* the value 0, the start hooks are called, and _runner_core sets RUNNING    *)
runner_init_start ==
    /\ corePc = "init2"
    /\ ~coreCancel
    /\ corePc' = "idle"
    /\ \E r \in {start_end(start_all(
                    [St EXCEPT !.out = [u \in Outputs |-> IF u \in Blocks THEN 0 ELSE UNDEF]],
                    StartOrder(circ)))} :
          /\ CommitHooks([st |-> r, log |-> hookLog \o StartLog(circ, hooks)])
          /\ state' = r.phase
          /\ closedErrors' = closedErrors
    /\ UNCHANGED <<empty, runPc, runExcs, tgVars, monPc, monCancel, coreCancel, jobVars,
                   pdict>>

(* Trigger.rz_stop *)
Trigger_rz_stop(s, t) ==
    Hooked(s, [s.st EXCEPT !.enabled[t] = FALSE], "rz_stop", t)

(* rz_stop of a Block *)
Block_rz_stop(s, b) ==
    Hooked(s,
           CASE hooks[b].stop = "fail" -> Raise(s.st, NewExc(s.st, b, "rz_stop failed"))
             [] hooks[b].stop = "set" -> Block_set_output(s.st, b, StopValue)
             [] hooks[b].stop = "flag" -> [s.st EXCEPT !.shut[b] = TRUE]
             [] OTHER -> s.st,
           "rz_stop", b)

(* a loop over the hooks that a failure ends (mutant) *)
rest_after_EndsAtFailure(s, units) ==
    IF s.log[Len(s.log)].r = "ok" THEN Tail(units) ELSE << >>

(* the units left after the hook of the first one was called: error_debug    *)
(* is entered inside the loop, the loop goes on                              *)
rest_after(s, units) == Tail(units)

rz_stop(s, u) == IF u \in Triggers THEN Trigger_rz_stop(s, u) ELSE Block_rz_stop(s, u)

RECURSIVE stop_all(_, _)
stop_all(s, units) ==
    IF units = << >> THEN s
    ELSE stop_all(rz_stop(s, Head(units)), rest_after(rz_stop(s, Head(units)), units))

(* for stop in chain(stop_blocks, stop_triggers) (mutant) *)
StopOrder_BlocksFirst(c, hk) ==
    IF SelectSeq(RegBlocks, LAMBDA b : hk[b].stop # "none") = << >> THEN << >>
    ELSE SelectSeq(RegBlocks, LAMBDA b : hk[b].stop # "none")
         \o IterOrder(Items(c), RegTriggers, FALSE)

(* stop_triggers and stop_blocks of _runner_shutdown: the units whose        *)
(* rz_stop is called, in the order of the calls                              *)
StopOrder(c, hk) ==
    IF SelectSeq(RegBlocks, LAMBDA b : hk[b].stop # "none") = << >> THEN << >>
    ELSE IterOrder(Items(c), RegTriggers, FALSE)
         \o SelectSeq(RegBlocks, LAMBDA b : hk[b].stop # "none")

(* the Blocks with rz_persistence: Block a has the initializers              *)
(* [RestoreState(), InitValue(0)], so its flags are ENABLED without EVENT    *)
(* and INTERVAL; the storage is an empty dict when run() is called           *)
PersistentBlocks == SelectSeq(RegBlocks, LAMBDA b : b = "a")

(* Circuit.save_persistent_state: rz_export_state of the Block returns its   *)
(* output; for UNDEF nothing is stored (blk.error is not defined, the        *)
(* AttributeError is logged by the except clause)                            *)
save_persistent_state(pd, st, b, now) ==
    IF st.out[b] = UNDEF THEN pd
    ELSE [pd EXCEPT ![b] = <<[state |-> st.out[b], now |-> now]>>]

RECURSIVE save_all(_, _, _, _)
save_all(pd, st, blks, now) ==
    IF blks = << >> THEN pd
    ELSE save_all(save_persistent_state(pd, st, Head(blks), now), st, Tail(blks), now)

(* the state is saved after the synchronous stop hooks (mutant) *)
final_save_AfterStop(pd, before, after, now) == save_all(pd, after, PersistentBlocks, now)

(* the head of _runner_shutdown: the state is saved first, "because stop     *)
(* may invalidate the state information"; before and after are the Circuit  *)
(* before and after the synchronous stop hooks, now is the time, counted in  *)
(* the hooks called so far                                                   *)
final_save(pd, before, after, now) == save_all(pd, before, PersistentBlocks, now)

(* _runner_shutdown up to the sleep(0): the final save of the persistent     *)
(* state, then the synchronous stop hooks                                    *)
runner_stop_sync ==
    /\ corePc = "stop1"
    /\ corePc' = "stop2"
    /\ CommitHooks(stop_all(HS, StopOrder(circ, hooks)))
    /\ pdict' = final_save(pdict, St, stop_all(HS, StopOrder(circ, hooks)).st, Len(hookLog))
    /\ UNCHANGED <<state, empty, runPc, runExcs, tgVars, monPc, monCancel, coreCancel,
                   closedErrors, jobVars>>

(* _runner_shutdown: the tasks of _shutdown_block_async are created          *)
runner_stop_async ==
    /\ corePc = "stop2"
    /\ \E b \in Blocks : hooks[b].astop
    /\ corePc' = "astop"
    /\ astopPc' = [b \in Blocks |-> IF hooks[b].astop THEN "run" ELSE "none"]
    /\ UNCHANGED <<state, errors, empty, runPc, runExcs, tgVars, monPc, monCancel,
                   coreCancel, closedErrors, jobVars>>
    /\ UNCHANGED <<propVars, waitVars, regVars, initVars, hooks, shutFlag, hookLog, pdict>>

(* _shutdown_block_async: rz_astop returns, raises, or is cancelled by       *)
(* asyncio.timeout(blk.rz_stop_timeout), which raises TimeoutError           *)
AstopOutcomes == {"returned", "raised", "timeout"}
AstopExc(st, b, how) ==
    CASE how = "raised" -> Raise(st, NewExc(st, b, "rz_astop failed"))
      [] how = "timeout" -> Raise(st, NewExc(st, b, "TimeoutError"))
      [] OTHER -> st

(* a timeout that cancels every rz_astop still running (mutant) *)
AstopAfter_All(pcs, b, how) ==
    [c \in Blocks |-> IF c = b \/ (how = "timeout" /\ pcs[c] = "run") THEN how ELSE pcs[c]]

(* the tasks of the group after the rz_astop of b ended: asyncio.timeout     *)
(* cancels the task it was entered in                                        *)
AstopAfter(pcs, b, how) == [pcs EXCEPT ![b] = how]

shutdown_block_async(b, how) ==
    /\ astopPc[b] = "run"
    /\ how \in AstopOutcomes
    /\ astopPc' = AstopAfter(astopPc, b, how)
    /\ \E r \in {error_debug(AstopExc(St, b, how))} :
          /\ errors' = r.errs
          /\ state' = r.phase
    /\ hookLog' = Append(hookLog, HookEntry("rz_astop", b, how, AstopExc(St, b, how).exc))
    /\ closedErrors' = closedErrors
    /\ UNCHANGED <<empty, runPc, runExcs, tgVars, monPc, monCancel, corePc, coreCancel,
                   jobVars>>
    /\ UNCHANGED <<propVars, waitVars, regVars, initVars, hooks, shutFlag, pdict>>

(* rz_close of a Block; it raises for the Blocks in fails *)
rz_close(s, b, fails) ==
    Hooked(s, IF b \in fails THEN Raise(s.st, NewExc(s.st, b, "rz_close failed")) ELSE s.st,
           "rz_close", b)

RECURSIVE close_all(_, _, _)
close_all(s, blks, fails) ==
    IF blks = << >> THEN s
    ELSE close_all(rz_close(s, Head(blks), fails),
                   rest_after(rz_close(s, Head(blks), fails), blks), fails)

(* _runner_shutdown after the group of the asynchronous stop hooks: the      *)
(* close hooks; then _runner_core sets CLOSED and raises the group of        *)
(* Circuit._errors, or CancelledError if there is none                       *)
runner_close ==
    /\ \/ corePc = "stop2" /\ \A b \in Blocks : ~hooks[b].astop
       \/ corePc = "astop" /\ \A b \in Blocks : astopPc[b] # "run"
    /\ corePc' = "done"
    /\ \E fails \in SUBSET {b \in Blocks : hooks[b].close} :
          CommitHooks(close_all(HS, SelectSeq(RegBlocks, LAMBDA b : hooks[b].close), fails))
    /\ state' = SetState(state, CLOSED)
    /\ closedErrors' = ClosedNow(state, CLOSED, errors', closedErrors)
    /\ innerLeaves' = innerLeaves \o errors'
    /\ innerAborting' = (innerAborting \/ errors' # << >>)
    /\ monCancel' = IF errors' # << >> /\ ~innerAborting /\ InnerCancelMon THEN TRUE
                    ELSE monCancel
    /\ UNCHANGED <<empty, runPc, runExcs, outerLeaves, outerAborting, rzPc, rzCancel,
                   monPc, coreCancel, jobVars, pdict>>

(* the events the application sends to the initialized Blocks *)
StopEvents ==
    {<<"a", "store", 1>>, <<"a", "store", MaxVal>>, <<"a", "_get_output", 0>>,
     <<"b", "store", 1>>, <<"b", "_get_output", 0>>}

StopEvent(b, etype, evalue) ==
    /\ out[b] # UNDEF
    /\ SendEvent(b, etype, evalue)

(* a timer of Block a sets its output while the Circuit is running *)
StopSetOutput(output) ==
    /\ state = RUNNING
    /\ SetOutput("a", output)

NextStop ==
    \/ RunStart
    \/ JobFailsAtStart
    \/ JobCancelled
    \/ ExternalShutdown
    \/ ShutdownMonitor
    \/ RzRunnerCancelled
    \/ RzRunnerEnd
    \/ RunEnd
    \/ CoreStart
    \/ CoreCancelled
    \/ CoreInit1(TRUE)
    \/ runner_init_start
    \/ \E e \in StopEvents : StopEvent(e[1], e[2], e[3])
    \/ StopSetOutput(MaxVal)
    \/ runner_stop_sync
    \/ runner_stop_async
    \/ \E b \in Blocks, how \in AstopOutcomes : shutdown_block_async(b, how)
    \/ runner_close

SpecStop == InitStop /\ [][NextStop]_vars

-----------------------------------------------------------------------------
(* The run under fair scheduling: the circuit of the hooks, with abort()     *)
(* called by the application instead of the events.                          *)

(* the run and the calls that end it; no event is sent *)
NextLive ==
    \/ RunStart
    \/ JobFailsAtStart
    \/ JobCancelled
    \/ ExternalShutdown
    \/ \E err \in ExtErrors : ExternalAbort(err)
    \/ ShutdownMonitor
    \/ RzRunnerCancelled
    \/ RzRunnerEnd
    \/ RunEnd
    \/ CoreStart
    \/ CoreCancelled
    \/ CoreInit1(TRUE)
    \/ runner_init_start
    \/ runner_stop_sync
    \/ runner_stop_async
    \/ \E b \in Blocks, how \in AstopOutcomes : shutdown_block_async(b, how)
    \/ runner_close

(* A step of a task that the event loop has ready: the shutdown monitor      *)
(* woken by the phase, a task that was cancelled, a task group whose         *)
(* children are done, the runner core after a sleep(0), an rz_astop that     *)
(* returns, raises or meets its deadline, a supporting job that ends on its  *)
(* cancellation.                                                             *)
LoopStep ==
    \/ ShutdownMonitor
    \/ RzRunnerCancelled
    \/ RzRunnerEnd
    \/ RunEnd
    \/ CoreStart
    \/ CoreCancelled
    \/ CoreInit1(TRUE)
    \/ runner_stop_async
    \/ \E b \in Blocks, how \in AstopOutcomes : shutdown_block_async(b, how)
    \/ runner_close
    \/ JobCancelled

(* the runner core is about to call the synchronous hooks: the initializers  *)
(* and start hooks of runner_init_start, the stop hooks of runner_stop_sync  *)
InSyncHooks == (corePc = "init2" /\ ~coreCancel) \/ corePc = "stop1"

(* The event loop runs a ready task eventually, and the synchronous hooks    *)
(* return: the runner core does not stay in front of them for ever.  The     *)
(* calls made by the application (shutdown(), abort()) and the failure of    *)
(* the supporting job may or may not happen.                                 *)
SpecLive == InitStop /\ [][NextLive]_vars /\ WF_vars(LoopStep) /\ []<>(~InSyncHooks)

-----------------------------------------------------------------------------
(* Claims about the life-cycle, checked under Spec.                          *)

(* C1: the phase never decreases and is always one of the six phases, under  *)
(* every interleaving of runner steps, abort() and shutdown().               *)
C1_PhaseNeverDecreases == [][state' >= state /\ state' \in CircuitState]_vars

(* the runner's _set_state(RUNNING) came after an abort and was ignored *)
C1_Witness == corePc = "idle" /\ state = SHUTDOWN /\ errors # << >>

StartErrors == {ErrClosed, ErrStarted, ErrEmpty}
StartFailed == \E i \in 1 .. Len(innerLeaves) : innerLeaves[i] \in StartErrors
RunOver == runPc \in {"ok", "raised"}

C7_EarlyExitAborts ==
    [][\A j \in Jobs :
          (jobEnd[j] = "none" /\ jobEnd'[j] \in {"return", "raise"}
                /\ ~after_shutdown(state))
          => /\ jobErr'[j] \in {ErrTerminated(j), ErrRaised(j)}
             /\ InSeq(jobErr'[j], errors') /\ ~InSeq(jobErr'[j], errors)
             /\ state' = IF state = UNDER_CONSTRUCTION THEN CLOSED ELSE SHUTDOWN]_vars

(* a service returned while the circuit was running *)
C7_Witness ==
    \E j \in Services :
        /\ jobEnd[j] = "return" /\ jobSeen[j] = RUNNING
        /\ jobErr[j] = ErrTerminated(j) /\ InSeq(jobErr[j], errors)
        /\ state = SHUTDOWN

JobErrors(j) == {ErrTerminated(j), ErrRaised(j), ErrCancelled(j)}

(* C8: the body of a job not started immediately starts in the RUNNING phase *)
(* only; a job that finds the phase beyond RUNNING is dropped without        *)
(* starting, and no error of it is recorded.                                 *)
C8_HeldUntilRunning ==
    \A j \in Jobs :
        ~jobImm[j] =>
            /\ jobSeen[j] \in {-1, RUNNING}
            /\ jobPc[j] = "body" => jobSeen[j] = RUNNING
            /\ jobEnd[j] = "not started" =>
                  /\ after_shutdown(state) /\ jobSeen[j] = -1 /\ jobErr[j] = NoError
                  /\ \A e \in JobErrors(j) : ~InSeq(e, errors)

(* a held job was dropped after the shutdown *)
C8_Witness ==
    \E j \in Services : ~jobImm[j] /\ jobEnd[j] = "not started" /\ state = CLOSED

(* C9 as stated: a job cancelled after the shutdown has begun records no     *)
(* error, a job cancelled before records one.                                *)
C9_AsStated ==
    [][\A j \in Jobs :
          (jobEnd[j] = "none" /\ jobEnd'[j] \in {"cancel", "held cancel"})
          => IF after_shutdown(state) THEN errors' = errors
             ELSE errors' # errors /\ InSeq(ErrCancelled(j), errors')]_vars

(* C9 amended: a job whose body was started and is cancelled records no      *)
(* error after the shutdown has begun and records one before; a job          *)
(* cancelled while it is still held for RUNNING never records an error.      *)
C9_CancelBeforeShutdownAborts ==
    [][\A j \in Jobs :
          /\ (jobEnd[j] = "none" /\ jobEnd'[j] = "cancel")
             => IF after_shutdown(state)
                THEN errors' = errors /\ state' = state /\ jobErr'[j] = NoError
                ELSE /\ jobErr'[j] = ErrCancelled(j)
                     /\ errors' = Append(errors, ErrCancelled(j))
                     /\ after_shutdown(state')
          /\ (jobEnd[j] = "none" /\ jobEnd'[j] = "held cancel")
             => errors' = errors /\ state' = state /\ jobErr'[j] = NoError]_vars

(* a service body was cancelled while the circuit was running *)
C9_Witness ==
    \E j \in Services :
        /\ jobEnd[j] = "cancel" /\ jobSeen[j] = RUNNING
        /\ jobErr[j] = ErrCancelled(j) /\ InSeq(ErrCancelled(j), errors)

(* C10: a step that changes the error list appends one error that was not in *)
(* the list; before the shutdown it also begins the shutdown, after it the   *)
(* phase is unchanged.                                                       *)
C10_AbortRecordsOnce ==
    [][errors' # errors =>
          /\ \E err \in ExtErrors \cup UNION {JobErrors(j) : j \in Jobs}
                        \cup {ErrPreInit, ErrInit, ErrStart} :
                  ~InSeq(err, errors) /\ errors' = Append(errors, err)
          /\ IF after_shutdown(state) THEN state' = state
             ELSE state' = IF state = UNDER_CONSTRUCTION THEN CLOSED ELSE SHUTDOWN]_vars

(* an error was recorded by abort() during the shutdown *)
C10_Witness ==
    /\ Len(errors) = 2 /\ errors[1] \in ExtErrors /\ state = SHUTDOWN
    /\ corePc \in {"stop1", "stop2", "stop3"}

-----------------------------------------------------------------------------
(* C11: shutdown() is idempotent.  Called in the phase UNDER_CONSTRUCTION it *)
(* leaves the phase CLOSED, called in a later phase before SHUTDOWN it       *)
(* leaves SHUTDOWN, and called in SHUTDOWN or CLOSED it changes nothing.     *)
C11_ShutdownIdempotent ==
    [][ExternalShutdown =>
          /\ state' = (IF state = UNDER_CONSTRUCTION THEN CLOSED
                       ELSE IF state < SHUTDOWN THEN SHUTDOWN
                       ELSE state)
          /\ errors' = errors
          /\ Shutdown(state') = state']_vars

(* C11 witness: shutdown() closed a Circuit whose runner was never started.  *)
C11_Witness == state = CLOSED /\ runPc = "init" /\ corePc = "absent" /\ errors = << >>

(* C12: reached_state(wanted) does not return while the phase is lower than *)
(* wanted; a waiter whose phase was reached has been woken (its Event is     *)
(* set) and returns; the value returned is TRUE exactly when the phase at    *)
(* the return equals the wanted one.                                         *)
C12_WaitForReturns ==
    /\ [](\A w \in Waiters :
             /\ wPc[w] = "returned" => wAt[w] >= wWant[w] /\ wRet[w] = (wAt[w] = wWant[w])
             /\ wPc[w] = "waiting" =>
                    \/ wEv[w] \in evSet
                    \/ wEv[w] = stateChange /\ state < wWant[w])
    /\ \A w \in Waiters :
           (wPc[w] = "waiting" /\ state >= wWant[w]) ~> (wPc[w] = "returned")

(* C12 witness: two waiters were suspended on the same Event in the phase   *)
(* UNDER_CONSTRUCTION, and the phase went up to RUNNING in three changes     *)
(* before either of them resumed; the one that asked for RUNNING returned    *)
(* TRUE, the one that asked for INIT_CIRCUIT returned FALSE.                 *)
C12_Witness ==
    /\ wPc["w1"] = "returned" /\ wPc["w2"] = "returned"
    /\ wEv["w1"] = wEv["w2"] /\ wEv["w1"] # 0
    /\ wWant["w1"] = RUNNING /\ wWant["w2"] = INIT_CIRCUIT
    /\ wAt["w1"] = RUNNING /\ wAt["w2"] = RUNNING
    /\ wRet["w1"] /\ ~wRet["w2"]

(* C13: registering a Block or a Formula under a name that is registered     *)
(* fails and leaves the registry unchanged, with the duplicate-name error    *)
(* whenever the phase admits registrations; no two registered units share a  *)
(* name.                                                                     *)
C13_NamesUnique ==
    /\ [](\A i, j \in 1 .. Len(blocksReg) : blocksReg[i][1] = blocksReg[j][1] => i = j)
    /\ [][\A kind \in {"Block", "Formula"}, name \in Names :
            (Register(kind, name) /\ \E i \in 1 .. Len(blocksReg) : blocksReg[i][1] = name)
            => /\ blocksReg' = blocksReg /\ triggersReg' = triggersReg
               /\ regLast'.result \in {"duplicate", "closed", "started"}
               /\ state <= INIT_CIRCUIT => regLast'.result = "duplicate"]_vars

(* C13 witness: a Formula was refused under the name of a registered Block.  *)
C13_Witness ==
    /\ regLast.result = "duplicate" /\ regLast.kind = "Formula"
    /\ \E i \in 1 .. Len(blocksReg) : blocksReg[i] = <<regLast.name, "Block">>
    /\ Len(blocksReg) = 2

(* C14, as stated: every registration in a phase other than                  *)
(* UNDER_CONSTRUCTION fails with a phase error and adds nothing.             *)
C14_AsStated ==
    [][\A kind \in Kinds, name \in Names \cup {"none"} :
          (Register(kind, name) /\ state # UNDER_CONSTRUCTION)
          => /\ regLast'.result \in {"closed", "started"}
             /\ blocksReg' = blocksReg /\ triggersReg' = triggersReg]_vars

(* C14: every registration in the phase INIT_BLOCKS or later fails with a    *)
(* phase error and adds nothing; in the phase INIT_CIRCUIT a registration is *)
(* treated as in UNDER_CONSTRUCTION: a Trigger and a new name are added.     *)
C14_NoRegistrationAfterStart ==
    [][\A kind \in Kinds, name \in Names \cup {"none"} :
          Register(kind, name)
          => /\ state > INIT_CIRCUIT
                  => /\ regLast'.result \in {"closed", "started"}
                     /\ blocksReg' = blocksReg /\ triggersReg' = triggersReg
             /\ state <= INIT_CIRCUIT
                  => /\ regLast'.result \in {"ok", "duplicate"}
                     /\ kind = "Trigger" => triggersReg' = triggersReg + 1
                     /\ regLast'.result = "ok" /\ kind # "Trigger"
                            => blocksReg' = Append(blocksReg, <<name, kind>>)]_vars

(* C14 witness: a Block was registered in the phase INIT_CIRCUIT, and a      *)
(* Trigger was refused after the start.                                      *)
C14_Witness ==
    /\ regLast.kind = "Trigger" /\ regLast.result = "started"
    /\ regLast.phase = RUNNING
    /\ Len(blocksReg) = 1 /\ triggersReg = 0


(* C15, as stated: the initializers of a Block are applied in the order of   *)
(* its list.                                                                 *)
C15_AsStated ==
    \A b \in Blocks : \A i, j \in 1 .. Len(ib[b].applied) :
        i < j => ib[b].applied[i] < ib[b].applied[j]

(* C15: no initializer of a Block is applied twice; while no event was       *)
(* delivered to the Block its initializers are applied in list order with    *)
(* none left out; a Block with the initializers [fails, fails, 0] that       *)
(* received no store event has, once initialized, the output 0 with all      *)
(* three applied and the two failures logged; and no initializer is applied  *)
(* to a Block that has a value.                                              *)
C15_ListOrder ==
    /\ [](\A b \in Blocks :
            /\ \A i, j \in 1 .. Len(ib[b].applied) :
                   i # j => ib[b].applied[i] # ib[b].applied[j]
            /\ ~ib[b].got_event =>
                   \A i \in 1 .. Len(ib[b].applied) : ib[b].applied[i] = i
            /\ (/\ ib[b].inits = <<"fail", "fail", "v0">>
                /\ ib[b].applied # << >>
                /\ ib[b].first_store = "none")
               => (/\ out[b] = 0
                   /\ ib[b].applied = <<1, 2, 3>>
                   /\ ib[b].log_errors = 2
                   /\ errors = << >> \/ state >= SHUTDOWN))
    /\ [][\A b \in Blocks : out[b] # UNDEF => ib'[b].applied = ib[b].applied]_vars

C15_Witness ==
    /\ ib["a"].inits = <<"fail", "fail", "v0">>
    /\ ib["a"].applied = <<1, 2, 3>>
    /\ ~ib["a"].got_event
    /\ out["a"] = 0
    /\ state = RUNNING
    /\ errors = << >>


(* every initializer of Block b and its default hook were tried by the runner *)
TriedAll(b) ==
    IF HasAsync(ib[b].inits) THEN ib[b].pc = "done"
    ELSE corePc = "initwait" \/ finalUndef # {"-"}

C17_AsStated ==
    (finalUndef # {"-"} /\ finalUndef # {})
    => /\ \A b \in Blocks : ib[b].pc \in {"none", "done"}
       /\ \A b \in finalUndef : InSeq(ErrNotInit(b), errors)

(* C17: when the final check finds uninitialized Blocks, every initializer   *)
(* of each of them was applied and no initialization is pending; one 'not    *)
(* initialized' error is recorded, that of the first uninitialized Block in  *)
(* registration order, and run() raises no such error of another Block.      *)
C17_FinalCheckFirst ==
    (finalUndef # {"-"} /\ finalUndef # {})
    => /\ \A b \in Blocks : ib[b].pc \in {"none", "done"}
       /\ \A b \in finalUndef :
             /\ out[b] = UNDEF \/ ib[b].got_event
             /\ \A i \in 1 .. Len(ib[b].inits) : InSeq(i, ib[b].applied)
       /\ \A b \in Blocks :
             InSeq(ErrNotInit(b), errors)
             <=> (b \in finalUndef /\ \A i \in 1 .. Len(RegBlocks) :
                                         RegBlocks[i] \in finalUndef =>
                                             \E k \in 1 .. i : RegBlocks[k] = b)
       /\ \A b \in Blocks : InSeq(ErrNotInit(b), runExcs) => InSeq(ErrNotInit(b), errors)

(* two Blocks were uninitialized at the final check *)
C17_Witness ==
    /\ finalUndef = {"a", "b"}
    /\ errors = <<ErrNotInit("a")>>
    /\ runPc = "raised"
    /\ runExcs = <<ErrNotInit("a")>>

(* C18, as stated: no initializer that raises or times out makes the         *)
(* initialization of its Block fail, and no error of an initializer is       *)
(* recorded in the Circuit.                                                  *)
C18_AsStated ==
    \A b \in Blocks : ib[b].pc # "failed" /\ ~InSeq(ErrInitGroup(b), errors)


(* C19, as stated (second part): a Block whose only initializer is a wait    *)
(* and whose first store event was admitted after the wait had timed out     *)
(* makes run() raise the 'not initialized' error.                            *)
C19_AsStated ==
    \A b \in EventBlocks :
        (/\ ib[b].inits = <<"wait">>
         /\ ib[b].first_store = "after"
         /\ runPc \in {"ok", "raised"})
        => InSeq(ErrNotInit(b), runExcs)

(* C19: an event is refused only when it is no '_get_' event and the         *)
(* shutdown has begun; the first admitted event of an uninitialized Block    *)
(* leaves it with a value or with every synchronous initializer applied, and *)
(* an admitted store event with the stored value.  A Block whose only        *)
(* initializer is a wait and that was sent an admitted store event, before   *)
(* or after the timeout of the wait, has the stored value and no 'not        *)
(* initialized' error; when the final check finds it uninitialized, the wait *)
(* has ended (timed out, or cancelled by a rejected _set_output(UNDEF)) and  *)
(* no store event was admitted before or is after.                           *)
C19_InitOnDemand ==
    /\ [](\A b \in EventBlocks :
            ib[b].inits = <<"wait">> =>
                /\ ib[b].first_store # "none" =>
                       /\ out[b] = MaxVal
                       /\ b \notin finalUndef
                       /\ ~InSeq(ErrNotInit(b), errors)
                /\ b \in finalUndef =>
                       /\ ib[b].first_store = "none"
                       /\ ib[b].pc = "done"
                       /\ state >= SHUTDOWN)
    /\ [][\A b \in EventBlocks, etype \in {"store", "_get_output"} :
            InitEvent(b, etype) =>
                /\ raised' # NoExc <=> (etype = "store" /\ state >= SHUTDOWN)
                /\ (raised' = NoExc /\ out[b] = UNDEF) =>
                       \/ out'[b] # UNDEF
                       \/ \A i \in 1 .. Len(ib[b].inits) :
                              IsAsync(ib[b].inits[i]) \/ InSeq(i, ib'[b].applied)
                /\ (raised' = NoExc /\ etype = "store") => out'[b] = MaxVal]_vars

(* the store event came after the timeout of the wait, the Circuit runs *)
C19_Witness ==
    /\ ib["a"].inits = <<"wait">>
    /\ ib["a"].first_store = "after"
    /\ ib["a"].pc = "done"
    /\ out["a"] = MaxVal
    /\ state = RUNNING
    /\ errors = << >>


(* C20, as stated: when the pre-init pass has run, the hook of every unit    *)
(* was called, and run() raises the failure of every failing hook.           *)
C20_AsStated ==
    preRun # << >>
    => /\ Len(preRun) = Len(PreOrder)
       /\ \A u \in preFail : runPc \in {"ok", "raised"} => InSeq(ErrPreInitOf(u), runExcs)

(* C20: the pre-init hooks are called in the order Blocks, Formulas,         *)
(* Triggers up to the first hook that fails; this failure is recorded, the   *)
(* shutdown begins, the runner initializes no Block, and run() raises the    *)
(* failure; the hooks of the later units are not called.  Without a failure  *)
(* every hook is called.                                                     *)
C20_PreInitStopsAtFailure ==
    preRun # << >>
    => /\ Len(preRun) <= Len(PreOrder)
       /\ \A i \in 1 .. Len(preRun) : preRun[i] = PreOrder[i]
       /\ \A i \in 1 .. Len(preRun) - 1 : preRun[i] \notin preFail
       /\ IF preRun[Len(preRun)] \in preFail
          THEN /\ InSeq(ErrPreInitOf(preRun[Len(preRun)]), errors)
               /\ state >= SHUTDOWN
               /\ finalUndef = {"-"}
               /\ \A b \in Blocks : ib[b].applied = << >> \/ ib[b].got_event
               /\ runPc # "ok"
               /\ runPc = "raised" => InSeq(ErrPreInitOf(preRun[Len(preRun)]), runExcs)
          ELSE Len(preRun) = Len(PreOrder)

(* the hook of the second Block failed: the hooks of the Formula and of the  *)
(* Trigger were not called                                                   *)
C20_Witness ==
    /\ preFail = {"b", "t0"}
    /\ preRun = <<"a", "b">>
    /\ runPc = "raised"
    /\ runExcs = <<ErrPreInitOf("b")>>


(* C28: an event() call of the application (the history of the call begins   *)
(* with the event) that fails with the unknown-event error or with the error *)
(* of its handler changes neither the error list nor the phase nor any       *)
(* output, and the event type is not left in flight, so a later event of the *)
(* type is admitted.                                                         *)
C28_EventErrorToCallerOnly ==
    [][/\ Len(calls') > 0 /\ calls'[1].k = "ev"
       /\ raised'[2] \in {"UnknownEvent", "handler failed"}
       => /\ errors' = errors
          /\ state' = state
          /\ out' = out
          /\ etypesActive' = etypesActive
          /\ calls'[1].t \notin etypesActive'[calls'[1].u]]_vars

C28_Witness ==
    /\ raised[2] = "handler failed"
    /\ Len(calls) > 0 /\ calls[1].k = "ev" /\ calls[1].r = "admitted"
    /\ errors = << >>
    /\ state = RUNNING

(* C29 as stated: an event() call that fails with the error of the function  *)
(* of a Formula or Trigger leaves the error list unchanged.                  *)
C29_AsStated ==
    [][/\ Len(calls') > 0 /\ calls'[1].k = "ev"
       /\ raised'[2] = "function failed"
       => errors' = errors]_vars

(* C29: a call that failed with the error of the function of a Formula or    *)
(* Trigger leaves the error in the error list, with the shutdown begun,      *)
(* whoever the caller is.                                                    *)
C29_FunctionErrorRecorded ==
    raised[2] = "function failed" => InSeq(raised, errors) /\ state >= SHUTDOWN

C29_Witness ==
    /\ raised[2] = "function failed"
    /\ calls[1].k = "ev" /\ calls[1].r = "admitted"
    /\ errors = <<raised>>
    /\ state = SHUTDOWN

(* C21 as stated: when the supporting job has failed at its first step, no   *)
(* start, stop or close hook is ever called, the phase is never INIT_BLOCKS  *)
(* or RUNNING, and run() raises the error of the job and nothing else.       *)
C21_AsStated ==
    jobEnd["t1"] = "raise"
    => /\ hookLog = << >>
       /\ state \notin {INIT_BLOCKS, RUNNING}
       /\ runPc # "ok"
       /\ runPc = "raised" => runExcs = <<ErrRaised("t1")>>

HookErrors == {"rz_stop failed", "rz_astop failed", "TimeoutError", "rz_close failed"}
CloseBlocks == {b \in Blocks : hooks[b].close}
Logged(h, u) == \E i \in 1 .. Len(hookLog) : hookLog[i].h = h /\ hookLog[i].u = u

(* C22: the step in which the rz_astop of a Block is cancelled at its        *)
(* deadline leaves the error list, the phase and the rz_astop of every other *)
(* Block as they are; when the runner core has ended after such a timeout,   *)
(* every close hook was called and the Circuit is closed; and no exception   *)
(* of run() is a TimeoutError.                                               *)
C22_TimeoutCancelsOneHook ==
    /\ [][\A b \in Blocks :
              astopPc[b] = "run" /\ astopPc'[b] = "timeout"
              => /\ errors' = errors
                 /\ state' = state
                 /\ \A c \in Blocks \ {b} : astopPc'[c] = astopPc[c]]_vars
    /\ [](corePc = "done" /\ (\E b \in Blocks : astopPc[b] = "timeout")
          => /\ state = CLOSED
             /\ \A c \in CloseBlocks : Logged("rz_close", c))
    /\ [](\A i \in 1 .. Len(runExcs) : runExcs[i][2] # "TimeoutError")

C22_Witness ==
    /\ astopPc["a"] = "timeout"
    /\ astopPc["b"] = "returned"
    /\ hookLog[Len(hookLog)].h = "rz_close"
    /\ state = CLOSED
    /\ runPc = "ok"

StopTriggers == {i \in 1 .. Len(hookLog) : hookLog[i].h = "rz_stop" /\ hookLog[i].u \in Triggers}
StopBlocks == {i \in 1 .. Len(hookLog) : hookLog[i].h = "rz_stop" /\ hookLog[i].u \in Blocks}
InStopSync == corePc = "stop1" /\ corePc' = "stop2"

(* C23 as stated: the synchronous stop hook of every Block is called before  *)
(* the stop hook of any Trigger.                                             *)
C23_AsStated == \A i \in StopBlocks, j \in StopTriggers : i < j

(* C23: the stop hook of every Trigger is called before the synchronous stop *)
(* hook of any Block, and no function of a Trigger is called in the step of  *)
(* the synchronous stop hooks.                                               *)
C23_TriggersStoppedFirst ==
    /\ [](\A i \in StopBlocks, j \in StopTriggers : j < i)
    /\ [](StopBlocks # {} =>
             \A t \in Triggers \cap Items(circ) : \E j \in StopTriggers : hookLog[j].u = t)
    /\ [][InStopSync =>
             \A i \in 1 .. Len(calls') : calls'[i].k = "fn" => calls'[i].u \notin Triggers]_vars

(* the stop hook of Block a changed its output, the Formulas followed, the   *)
(* stopped Trigger was run and did not call its function                     *)
C23_Witness ==
    /\ corePc = "stop2"
    /\ hooks["a"].stop = "set"
    /\ out["g"] = StopValue
    /\ outPrev["g"] = 0
    /\ \E i \in 1 .. Len(calls) :
          calls[i].k = "run" /\ calls[i].u = "t4" /\ calls[i].r = "disabled"

(* C24 as stated: once the Circuit is closed every Trigger is disabled.      *)
C24_AsStated == state = CLOSED => \A t \in Triggers : ~enabled[t]

(* C25: the step in which a stop or close hook fails raises nothing and      *)
(* moves the runner on as a step without failure does; once a hook has       *)
(* failed, the synchronous stop hook of every Block that has one was called  *)
(* when the runner goes on to the asynchronous stop hooks, and when the      *)
(* runner core has ended every asynchronous stop hook and every close hook   *)
(* was called too and the Circuit is closed.                                 *)
C25_HookFailureSuppressed ==
    /\ [][(\E i \in Len(hookLog) + 1 .. Len(hookLog') : hookLog'[i].r = "raised")
           => /\ \A i \in Len(hookLog) + 1 .. Len(hookLog') :
                    hookLog'[i].r = "raised" => raised' # hookLog'[i].e
              /\ corePc = "stop1" => corePc' = "stop2"
              /\ corePc = "stop2" => corePc' = "done"
              /\ corePc = "astop" =>
                    \/ corePc' = "astop" /\ \E b \in Blocks : astopPc[b] = "run" /\ astopPc'[b] # "run"
                    \/ corePc' = "done"
              /\ corePc' = "done" => state' = CLOSED]_vars
    /\ []((\E i \in 1 .. Len(hookLog) : hookLog[i].r = "raised")
          => /\ corePc \in {"stop2", "astop", "done"}
             /\ \A b \in Blocks : hooks[b].stop # "none" => Logged("rz_stop", b)
             /\ corePc = "done"
                => /\ \A b \in Blocks : hooks[b].astop => Logged("rz_astop", b)
                   /\ \A b \in CloseBlocks : Logged("rz_close", b)
                   /\ state = CLOSED)

(* the stop hook of a failed and the stop hook of b was called after it; the *)
(* asynchronous stop hook of b failed and the close hook of a was called     *)
(* after it and failed; the Circuit is closed                                *)
C25_Witness ==
    /\ state = CLOSED
    /\ \E i, j, k \in 1 .. Len(hookLog) :
          /\ i < j /\ j < k
          /\ hookLog[i].h = "rz_stop" /\ hookLog[i].r = "raised"
          /\ hookLog[i + 1].h = "rz_stop" /\ hookLog[i + 1].r = "ok"
          /\ hookLog[j].h = "rz_astop" /\ hookLog[j].r = "raised"
          /\ hookLog[k].h = "rz_close" /\ hookLog[k].r = "raised"

(* C26 as stated: the failure of every stop or close hook is in the error    *)
(* list when the Circuit is closed.                                          *)
C26_AsStated ==
    state = CLOSED
    => \A i \in 1 .. Len(hookLog) : hookLog[i].r # "ok" => InSeq(hookLog[i].e, errors)

(* C26: an exception raised by a stop or close hook itself, a timeout of an  *)
(* asynchronous stop hook included, is never in the error list and never     *)
(* among the exceptions run() raises.                                        *)
C26_HookFailureLoggedOnly ==
    /\ \A i \in 1 .. Len(errors) : errors[i][2] \notin HookErrors
    /\ \A i \in 1 .. Len(runExcs) : runExcs[i][2] \notin HookErrors

(* hooks failed and run() returned normally *)
C26_Witness ==
    /\ runPc = "ok"
    /\ errors = << >>
    /\ \E i, j \in 1 .. Len(hookLog) :
          /\ hookLog[i].h = "rz_stop" /\ hookLog[i].r = "raised"
          /\ hookLog[j].h = "rz_close" /\ hookLog[j].r = "raised"

TopEvent == \E e \in StopEvents : StopEvent(e[1], e[2], e[3])
Rejected ==
    /\ calls' = <<Entry("ev", calls'[1].u, calls'[1].t, "shutdown", 0)>>
    /\ raised'[2] = "The circuit was shut down"
    /\ UNCHANGED <<out, outPrev, etypesActive, evaluateActive, enabled, errors, state,
                   shutFlag>>

(* C30 as stated: once the shutdown has begun, every event() call of a type  *)
(* that is not an introspection type is rejected.                            *)
C30_AsStated ==
    [][TopEvent /\ state >= SHUTDOWN /\ calls'[1].t # "_get_output" => Rejected]_vars

(* C30: an event() call of an introspection type is delivered in every       *)
(* phase; a call of another type is rejected, with nothing changed, by a     *)
(* Block with the default rz_is_shut_down once the shutdown has begun, and   *)
(* by an output Block once its own stop hook was called, and not before.     *)
C30_RejectedAfterShutdown ==
    [][TopEvent =>
          /\ calls'[1].t = "_get_output" =>
                /\ calls'[1].r = "admitted"
                /\ raised' = NoExc
                /\ UNCHANGED <<out, outPrev, errors, state>>
          /\ calls'[1].t # "_get_output" /\ hooks[calls'[1].u].stop # "flag" =>
                IF state >= SHUTDOWN THEN Rejected ELSE calls'[1].r # "shutdown"
          /\ calls'[1].t # "_get_output" /\ hooks[calls'[1].u].stop = "flag" =>
                IF Logged("rz_stop", calls'[1].u) THEN Rejected
                ELSE calls'[1].r = "admitted"]_vars

(* a store event was rejected while the Circuit was shutting down *)
C30_Witness ==
    /\ state = SHUTDOWN
    /\ calls = <<Entry("ev", "a", "store", "shutdown", 0)>>
    /\ raised[2] = "The circuit was shut down"
    /\ out["a"] = 0

-----------------------------------------------------------------------------
(* Claims about the propagation and the event dispatch, checked under       *)
(* SpecProp.  They read the history of the last call: the entries            *)
(*   frame, ret   a Block._set_output call (numbered fr) began (r: the value *)
(*                given is "new", the "same" as the output, or "undef"),     *)
(*                returned True                                              *)
(*   set          the output of a unit changed                               *)
(*   eval, evalx  a Formula.evaluate call began (r: "run", or "cycle" when   *)
(*                it raised the dependency-loop error at once), ended        *)
(*   run          Trigger.run was called (r: "enabled" or "disabled")        *)
(*   fn           the function of a unit was called (r: its arguments are    *)
(*                all "defined", or one is "undef")                          *)
(*   skip         run_function found an argument UNDEF                       *)
(*   ev, evx      a Block.event call began (r: "admitted", "reentrant" or    *)
(*                "shutdown"), an admitted one ended                         *)
Idx == 1 .. Len(calls)
Is(i, k, u, fr) == calls[i].k = k /\ calls[i].u = u /\ calls[i].fr = fr
Frames == {calls[i].fr : i \in {j \in Idx : calls[j].k = "frame"}}
FrameBlock(fr) == CHOOSE b \in Blocks : \E i \in Idx : Is(i, "frame", b, fr)
Returned(fr) == \E i \in Idx : Is(i, "ret", FrameBlock(fr), fr)
ChangedIn(fr) == {u \in Outputs : \E i \in Idx : Is(i, "set", u, fr)}
DependsOnChange(u, fr) ==
    \E inp \in InputsOf(u) : inp = FrameBlock(fr) \/ inp \in ChangedIn(fr)
RunCount(t, fr) == Cardinality({i \in Idx : Is(i, "run", t, fr)})
EnabledRunCount(t, fr) ==
    Cardinality({i \in Idx : Is(i, "run", t, fr) /\ calls[i].r = "enabled"})
FnCount(u, fr) == Cardinality({i \in Idx : Is(i, "fn", u, fr)})

PureCircuits == {"diamond", "ring"}

(* C3: in a circuit of pure Formulas, when the function of a Trigger is     *)
(* called within a Block._set_output call, every Formula that has the Block  *)
(* or a Formula changed by the call among its inputs was evaluated before    *)
(* within that call, no Formula is evaluated within that call afterwards,    *)
(* and every Formula holds the value of its function for the current         *)
(* outputs.                                                                  *)
C3_FormulasBeforeTriggers ==
    circ \in PureCircuits =>
        \A i \in Idx :
            (calls[i].k = "fn" /\ calls[i].u \in Triggers /\ calls[i].fr > 0) =>
                /\ calls[i].ok
                /\ \A f \in Formulas \cap Items(circ) :
                      DependsOnChange(f, calls[i].fr) =>
                          \E j \in 1 .. i : Is(j, "eval", f, calls[i].fr)
                /\ \A j \in Idx : (j > i /\ calls[j].k = "eval") => calls[j].fr # calls[i].fr

(* C3 witness: in the diamond a change of a changed f3 through f1 or f2,    *)
(* and the functions of t1 and of t2 were called.                            *)
C3_Witness ==
    /\ circ = "diamond"
    /\ \E fr \in Frames :
          /\ "f3" \in ChangedIn(fr)
          /\ FnCount("t1", fr) = 1
          /\ FnCount("t2", fr) = 1

(* an event of type etype is in flight on Block b when entry i is written *)
InFlight(i, b, etype) ==
    Cardinality({j \in 1 .. i - 1 : Is(j, "ev", b, 0) /\ calls[j].t = etype
                                      /\ calls[j].r = "admitted"})
        > Cardinality({j \in 1 .. i - 1 : Is(j, "evx", b, 0) /\ calls[j].t = etype})

(* C4: an event call fails with the re-entrancy error iff an event of the    *)
(* same type is in flight on the same Block; the error is then raised to the *)
(* caller, it is in the error list and the phase is SHUTDOWN or later.       *)
C4_ReentrancyIffInFlight ==
    \A i \in Idx :
        calls[i].k = "ev" =>
            /\ calls[i].r = "reentrant" <=> InFlight(i, calls[i].u, calls[i].t)
            /\ calls[i].r = "reentrant" =>
                  /\ raised = calls[i].exc
                  /\ InSeq(calls[i].exc, errors)
                  /\ state >= SHUTDOWN

(* C4 witness: a handler sent an event of another type to its own Block,     *)
(* which was admitted, and later an event of a type in flight, which failed. *)
C4_Witness ==
    /\ \E i \in Idx : calls[i].k = "ev" /\ calls[i].r = "reentrant"
    /\ \E i \in Idx :
          /\ calls[i].k = "ev"
          /\ calls[i].r = "admitted"
          /\ \E etype \in ETypes \ {calls[i].t} : InFlight(i, calls[i].u, etype)

(* an evaluation of Formula f has begun and not ended when entry i is        *)
(* written                                                                   *)
EvalInProgress(i, f) ==
    Cardinality({j \in 1 .. i - 1 : calls[j].k = "eval" /\ calls[j].u = f
                                      /\ calls[j].r = "run"})
        > Cardinality({j \in 1 .. i - 1 : calls[j].k = "evalx" /\ calls[j].u = f})

(* C5, as stated: a Formula evaluated again while an evaluation of it has    *)
(* not finished fails with the dependency-cycle error.                       *)
C5_AsStated ==
    \A i \in Idx :
        (calls[i].k = "eval" /\ EvalInProgress(i, calls[i].u)) => calls[i].r = "cycle"

(* the entry that ends the evaluation begun by entry i *)
EvalEnd(i) ==
    CHOOSE j \in i + 1 .. Len(calls) :
        /\ calls[j].k = "evalx" /\ calls[j].u = calls[i].u
        /\ \A n \in i + 1 .. j - 1 : ~(calls[n].k = "evalx" /\ calls[n].u = calls[i].u)
(* the circuits in which no function of a Formula sends an event *)
QuietCircuits == {"diamond", "notify", "ring"}
(* entry i begins a _set_output call of a Block with a value of kind r *)
IsFrame(i, r) == calls[i].k = "frame" /\ calls[i].r = r

(* C31: _set_output with the value the unit has, on a unit without          *)
(* always_trigger, returns False and changes nothing.  For a Block: nothing  *)
(* is evaluated, run or set within the call, and a call made from outside    *)
(* leaves the outputs, the previous outputs, the flags, the phase and the    *)
(* error list as they were.  For a Formula: an evaluation whose result is    *)
(* the value the Formula has sets nothing and evaluates no dependent: it     *)
(* ends right after the call of the function.                                *)
C31_SameValueUnchanged ==
    /\ [](\A i \in Idx :
             (IsFrame(i, "same") /\ ~AlwaysTrigger(circ, calls[i].u)) =>
                 \A j \in Idx \ {i} : calls[j].fr # calls[i].fr)
    /\ [](circ \in QuietCircuits =>
             \A i \in Idx :
                 (/\ calls[i].k = "eval" /\ calls[i].r = "run"
                  /\ \A n \in i .. EvalEnd(i) : ~Is(n, "set", calls[i].u, calls[i].fr))
                 => EvalEnd(i) <= i + 2)
    /\ [][\A b \in Blocks :
             (~AlwaysTrigger(circ, b) /\ SetOutput(b, out[b])) =>
                 /\ UNCHANGED <<out, outPrev, evaluateActive, etypesActive, enabled,
                                state, errors>>
                 /\ raised' = NoExc
                 /\ Len(calls') = 1]_vars

(* C31 witness: in the started diamond, Block a was set to the value it had, *)
(* which leaves f1 = f2 = 1, and nothing but the call was recorded.          *)
C31_Witness ==
    /\ circ = "diamond"
    /\ Len(calls) = 1 /\ IsFrame(1, "same") /\ calls[1].u = "a"
    /\ out["a"] = MaxVal /\ out["f3"] = 2
    /\ raised = NoExc

EvCount(b, etype, r) ==
    Cardinality({i \in Idx : Is(i, "ev", b, 0) /\ calls[i].t = etype /\ calls[i].r = r})
EvxCount(b, etype) ==
    Cardinality({i \in Idx : Is(i, "evx", b, 0) /\ calls[i].t = etype})

(* C36: when no event call is in progress, the set of event types in flight  *)
(* is empty for every Block, whether the last call and the calls nested in   *)
(* it returned or raised: every admitted call removed its type when it       *)
(* ended.  Hence an event call made from outside is never refused as         *)
(* re-entrant, whatever failed before.                                       *)
C36_InFlightRestored ==
    /\ \A b \in Blocks : etypesActive[b] = {}
    /\ \A b \in Blocks, etype \in ETypes : EvCount(b, etype, "admitted") = EvxCount(b, etype)
    /\ (Len(calls) > 0 /\ calls[1].k = "ev") => calls[1].r # "reentrant"

(* C36 witness: an event call failed with the re-entrancy error of a nested  *)
(* call of the same type, after another nested call had failed or returned;  *)
(* no type is left in flight.                                                *)
C36_Witness ==
    /\ raised[2] = "generated another event of the same type"
    /\ Len(calls) > 0 /\ calls[1].k = "ev" /\ calls[1].r = "admitted"
    /\ \E i \in Idx : calls[i].k = "ev" /\ calls[i].r = "reentrant" /\ calls[i].t = calls[1].t
                       /\ calls[i].u = calls[1].u
    /\ \A b \in Blocks : etypesActive[b] = {}

(* C37, as stated: between the calls no evaluation is in progress, and the   *)
(* flag _evaluate_active of every Formula is False.                          *)
C37_AsStated == \A f \in Formulas : ~evaluateActive[f]

(* C34: the function of a Formula or Trigger is called with defined         *)
(* arguments only.  When run_function finds an argument UNDEF, the           *)
(* evaluation of a Formula ends at once, without a value set and without an  *)
(* evaluation within it; and a Trigger is run within a _set_output call only *)
(* when the Block of the call or a Formula changed by the call is among its  *)
(* inputs, so a Formula left as it was fires nothing.                        *)
C34_NoCallOnUndefInput ==
    /\ \A i \in Idx :
          /\ calls[i].k = "fn" => calls[i].r = "defined"
          /\ (calls[i].k = "skip" /\ calls[i].u \in Formulas) =>
                /\ i < Len(calls)
                /\ calls[i + 1].k = "evalx" /\ calls[i + 1].u = calls[i].u
    /\ \A fr \in Frames : \A t \in Triggers \cap Items(circ) :
          RunCount(t, fr) > 0 => DependsOnChange(t, fr)

(* C34 witness: in the circuit mutual the start hooks found an argument of   *)
(* p, of q and of the enabled Trigger t6 UNDEF; no function was called, no   *)
(* output was set and the Circuit is running.                                *)
C34_Witness ==
    /\ circ = "mutual"
    /\ state = RUNNING
    /\ \A u \in {"p", "q", "t6"} : \E i \in Idx : calls[i].k = "skip" /\ calls[i].u = u
    /\ \E i \in Idx : calls[i].k = "run" /\ calls[i].u = "t6" /\ calls[i].r = "enabled"
    /\ \A i \in Idx : calls[i].k \notin {"fn", "set"}
    /\ out["p"] = UNDEF /\ out["q"] = UNDEF

(* C38, as stated: in the phase RUNNING every Block and every Formula of the *)
(* circuit has a value.                                                      *)
C38_AsStated ==
    state = RUNNING => \A u \in Outputs \cap Items(circ) : out[u] # UNDEF

(* Claims about the outputs during and after the initialization, checked     *)
(* under SpecInit.                                                           *)
UndefRejected(b) == raised = <<b, "Cannot set output to UNDEF", Len(errors)>>

(* C33: no step (an initializer applied, an event, a _set_output call, the   *)
(* evaluation of the Formulas at the start or after a change) makes the      *)
(* output of a Block or Formula UNDEF that was not UNDEF before; and a       *)
(* _set_output(UNDEF) call raises the error and leaves every output and      *)
(* previous output as it was.                                                *)
C33_NeverUndefAgain ==
    [][/\ \A u \in Outputs : out[u] # UNDEF => out'[u] # UNDEF
       /\ \A b \in EventBlocks :
             InitSetUndef(b) =>
                 /\ raised' = <<b, "Cannot set output to UNDEF", Len(errors)>>
                 /\ UNCHANGED <<out, outPrev, errors, state>>]_vars

(* C33 witness: the circuit is running, every Block and the Formula have a  *)
(* value, and the last call was a rejected _set_output(UNDEF) of Block a.    *)
C33_Witness ==
    /\ state = RUNNING
    /\ \A u \in {"a", "b", "m"} : out[u] # UNDEF
    /\ UndefRejected("a")

(* C40, as stated: a rejected _set_output(UNDEF) call leaves the Block as it *)
(* was: output, previous output, the dependents, and the reference to a      *)
(* pending initializer task, which is not cancelled.                         *)
C40_AsStated ==
    [][\A b \in EventBlocks :
          InitSetUndef(b) =>
              /\ UNCHANGED <<out, outPrev, evaluateActive, enabled, errors, state>>
              /\ ib'[b] = ib[b]]_vars

-----------------------------------------------------------------------------
(* Claims about the persistent state, checked under SpecStop.                *)

IsStopHook(e) == e.h \in {"rz_stop", "rz_astop", "rz_close"}
Saved(b) == pdict[b] # << >>

(* C35: _runner_shutdown stores the state of every initialized Block with    *)
(* persistence before it calls the first stop hook: the step that runs the   *)
(* synchronous stop hooks stores the output the Block had before them, no    *)
(* later step (asynchronous stop hooks, close hooks) writes the storage, and *)
(* as soon as a stop or close hook was called in a Circuit whose Blocks were *)
(* initialized (its start hooks were called), the state is in the storage.   *)
(* Nothing is stored for a Block without persistence.                        *)
C35_FinalCheckpointFirst ==
    /\ [][corePc = "stop1" /\ corePc' = "stop2"
          => \A i \in 1 .. Len(PersistentBlocks) :
                out[PersistentBlocks[i]] # UNDEF
                => /\ Saved(PersistentBlocks[i])'
                   /\ pdict'[PersistentBlocks[i]][1].state = out[PersistentBlocks[i]]]_vars
    /\ [][pdict' # pdict => corePc = "stop1" /\ corePc' = "stop2"]_vars
    /\ []((\E j, k \in 1 .. Len(hookLog) :
                hookLog[j].h = "rz_start" /\ IsStopHook(hookLog[k]))
          => \A i \in 1 .. Len(PersistentBlocks) : Saved(PersistentBlocks[i]))
    /\ [](\A b \in Blocks : Saved(b) => \E i \in 1 .. Len(PersistentBlocks) :
                                            PersistentBlocks[i] = b)

(* C35 witness: the Circuit is closed; the rz_stop hook of Block a has set   *)
(* its output to StopValue, its rz_astop and rz_close hooks were called, and *)
(* the storage holds MaxVal, the output of a when the shutdown began.        *)
C35_Witness ==
    /\ state = CLOSED
    /\ hooks["a"].stop = "set"
    /\ Logged("rz_stop", "a") /\ Logged("rz_astop", "a") /\ Logged("rz_close", "a")
    /\ out["a"] = StopValue
    /\ Saved("a")
    /\ pdict["a"][1].state = MaxVal

-----------------------------------------------------------------------------
(* Claims about the termination of the run, checked under SpecLive.          *)

RunEnded == runPc \in {"ok", "raised"}
Stopping == runPc = "running" /\ after_shutdown(state)

(* C39: under fair scheduling, with stop hooks that return and a supporting  *)
(* job that ends when it is cancelled, a run that was started and then       *)
(* stopped (shutdown() or abort() called, or the supporting job failed, all  *)
(* of which set SHUTDOWN or CLOSED) terminates: the shutdown monitor leaves  *)
(* its wait, the runner core leaves its idle wait, every rz_astop task ends  *)
(* as returned, raised or timed out, the Circuit reaches CLOSED and run()    *)
(* returns or raises; run() never ends before CLOSED.                        *)
C39_RunTerminates ==
    /\ Stopping ~> (state = CLOSED /\ RunEnded)
    /\ (Stopping /\ monPc = "wait") ~> (monPc \in {"raised", "cancelled"})
    /\ (Stopping /\ corePc = "idle") ~> (corePc = "stop1")
    /\ \A b \in Blocks : (astopPc[b] = "run") ~> (astopPc[b] \in AstopOutcomes)
    /\ [](RunEnded => state = CLOSED /\ corePc = "done" /\ monPc # "wait")

(* C39 witness: run() has returned or raised after a shutdown in which the   *)
(* runner core was cancelled out of its idle wait in RUNNING; one rz_astop   *)
(* returned and the other one ended by its deadline.                         *)
C39_Witness ==
    /\ RunEnded
    /\ state = CLOSED
    /\ Logged("rz_start", "a")
    /\ astopPc["a"] = "returned"
    /\ astopPc["b"] = "timeout"
    /\ Logged("rz_close", "a")

=============================================================================
